---- MODULE Spec2Model ----
(***************************************************************************)
(* Hook lifecycle and session-state recovery of the MAKO plugin:           *)
(*   - hooks/lib/telemetry.js        (logEvent, wrapHook)                  *)
(*   - hooks/pre-compact-save.js     (session-state snapshot)              *)
(*   - hooks/subagent-stop-memory.js (pipeline reminder)                   *)
(*   - hooks/user-prompt-submit-rufus.js (context reload)                  *)
(*   - hooks/lib/memory-fallback.js  (health probe, fallback notice)       *)
(*                                                                         *)
(* Strings that the code inspects character by character (the sprint       *)
(* status document) are sequences of one-character strings.  JSON values   *)
(* are records [t |-> type, v |-> text].                                   *)
(***************************************************************************)
EXTENDS Integers, Sequences, FiniteSets, TLC

(***************************************************************************)
(* Bounds of the model.                                                    *)
(***************************************************************************)
\* wrapped invocations that may be in flight (wrapHook calls)
NumInvs == 2
\* direct logEvent calls
MaxDirect == 3
\* readings of the clock
MaxClock == 2

\* processes sharing the telemetry log (each loads telemetry.js once)
Procs == {"p1", "p2"}
Invs == 1..NumInvs
\* hook processes; the host runs one hook at a time
HookProcs == {"h1", "h2"}
SeqProcs == {"h1"}

(***************************************************************************)
(* State.                                                                  *)
(***************************************************************************)
VARIABLES
    \* ---- telemetry (hooks/lib/telemetry.js) ----
    log,         \* events.jsonl: the sequence of chunks appended so far
    telDir,      \* the telemetry directory: "missing" or "present"
    dirEnsured,  \* per process: the module-level cache flag
    ncalls,      \* logEvent calls made since the log was last fresh
    nfailed,     \* those of them whose failure was swallowed
    ndirect,     \* direct logEvent calls made so far
    logRaised,   \* whether some logEvent call raised to its caller
    wpc,         \* per wrapped invocation: "idle", "body", "returned",
                 \* "raised" or "killed"
    wproc,       \* per wrapped invocation: the process it runs in
    wargs,       \* per wrapped invocation: the arguments of the call
    wbodyArgs,   \* per wrapped invocation: the arguments fn received
    wbody,       \* per wrapped invocation: what fn did
    wout,        \* per wrapped invocation: what the caller observed
    emitted      \* per wrapped invocation: the logEvent calls it made

telVars == <<log, telDir, dirEnsured, ncalls, nfailed, ndirect,
             logRaised, wpc, wproc, wargs, wbodyArgs, wbody, wout, emitted>>

VARIABLES
    \* ---- project directory and hook processes ----
    stateFile,   \* .mako-session-state.json
    sprintFile,  \* sprint-status.yaml
    now,         \* the clock
    hpc,         \* per hook process: "idle", "write", "report", "exited"
    hkind,       \* per hook process: "pcs", "ssm" or "ups", None when idle
    hprior,      \* per hook process: the state file as it was at the start
    hstate,      \* per hook process: sessionState
    hwrote,      \* per hook process: whether writeFileSync succeeded
    hout,        \* per hook process: the objects written to stdout
    herr,        \* per hook process: the warnings written to stderr
    hprobe,      \* per hook process: its call of isMemoryServiceHealthy
    pwait,       \* per hook process: how long its probe subprocess has run
    memfb,       \* lib/memory-fallback as loaded: its port, its last command
    settled,     \* the state file is a snapshot the hook wrote and no
                 \*   file was edited since
    diskBefore,  \* the state file as it was when no hook process ran
    prevSnap     \* the snapshot that the one on disk replaced, when the
                 \*   two were written in succession with no edit between

sesVars == <<stateFile, sprintFile, now, hpc, hkind, hprior, hstate, hwrote,
             hout, herr, hprobe, pwait, memfb,
             settled, diskBefore, prevSnap>>
ghostVars == <<settled, diskBefore, prevSnap>>

VARIABLES
    \* ---- ensure-shodh-server.js ----
    configFile,  \* ~/.shodh/shodh-config.json
    mcpFile,     \* .mcp.json of the plugin
    fsWritable,  \* whether the filesystem accepts mkdir and writes
    spc,         \* the hook process: "idle", "health", "auth" or "exited"
    sconfig,     \* its config object
    schecks,     \* what checkHealth and checkAuth returned to it
    sout,        \* the status messages it wrote to stdout
    leftByRun    \* the two files are as a run of the hook left them: no
                 \*   edit and no change of the filesystem since

shodhVars == <<configFile, mcpFile, fsWritable, spc, sconfig, schecks, sout,
               leftByRun>>

vars == <<telVars, sesVars, shodhVars>>

None == "none"


(***************************************************************************)
(* Text: a string the code scans is a sequence of one-character strings.   *)
(***************************************************************************)
F_workflow ==
    <<"w", "o", "r", "k", "f", "l", "o", "w">>
F_status ==
    <<"s", "t", "a", "t", "u", "s">>
F_current_phase ==
    <<"c", "u", "r", "r", "e", "n", "t", "_", "p", "h", "a", "s", "e">>
F_next_phase ==
    <<"n", "e", "x", "t", "_", "p", "h", "a", "s", "e">>
F_quality_tier ==
    <<"q", "u", "a", "l", "i", "t", "y", "_", "t", "i", "e", "r">>
F_scale ==
    <<"s", "c", "a", "l", "e">>

\* the fields pre-compact-save extracts, in the order it builds sprintData
SprintFields == <<F_workflow, F_status, F_current_phase, F_next_phase,
                  F_quality_tier, F_scale>>

\* sprint-status.yaml as the orchestrator writes it: the sprint block and
\* two stories
DocFull ==
    <<"s", "p", "r", "i", "n", "t", ":", "\n", " ", " ", "w", "o", "r", "k",
      "f", "l", "o", "w", ":", " ", "\"", "f", "e", "a", "t", "u", "r", "e",
      "\"", "\n", " ", " ", "s", "t", "a", "t", "u", "s", ":", " ", "\"",
      "a", "c", "t", "i", "v", "e", "\"", "\n", " ", " ", "c", "u", "r", "r",
      "e", "n", "t", "_", "p", "h", "a", "s", "e", ":", " ", "\"", "h", "o",
      "j", "o", "\"", "\n", " ", " ", "n", "e", "x", "t", "_", "p", "h", "a",
      "s", "e", ":", " ", "\"", "r", "e", "n", "o", "\"", "\n", " ", " ",
      "q", "u", "a", "l", "i", "t", "y", "_", "t", "i", "e", "r", ":", " ",
      "S", "t", "a", "n", "d", "a", "r", "d", "\n", " ", " ", "s", "c", "a",
      "l", "e", ":", " ", "3", "\n", "s", "t", "o", "r", "i", "e", "s", ":",
      "\n", " ", " ", "-", " ", "i", "d", ":", " ", "S", "T", "-", "1", "\n",
      " ", " ", " ", " ", "s", "t", "a", "t", "u", "s", ":", " ", "\"", "d",
      "o", "n", "e", "\"", "\n", " ", " ", "-", " ", "i", "d", ":", " ", "S",
      "T", "-", "2", "\n", " ", " ", " ", " ", "s", "t", "a", "t", "u", "s",
      ":", " ", "\"", "r", "e", "v", "i", "e", "w", "\"", "\n">>

\* a document that has lost fields
DocPartial ==
    <<"s", "p", "r", "i", "n", "t", ":", "\n", " ", " ", "w", "o", "r", "k",
      "f", "l", "o", "w", ":", " ", "\"", "h", "o", "t", "f", "i", "x", "\"",
      "\n", " ", " ", "c", "u", "r", "r", "e", "n", "t", "_", "p", "h", "a",
      "s", "e", ":", " ", "\"", "r", "e", "n", "o", "\"", "\n">>

\* a document with unquoted values, one followed by a space and one by the
\* carriage return of a CRLF line ending
DocUnquoted ==
    <<"s", "p", "r", "i", "n", "t", ":", "\n", " ", " ", "w", "o", "r", "k",
      "f", "l", "o", "w", ":", " ", "h", "o", "t", "f", "i", "x", "\n", " ",
      " ", "c", "u", "r", "r", "e", "n", "t", "_", "p", "h", "a", "s", "e",
      ":", " ", "h", "o", "j", "o", " ", "\n", " ", " ", "n", "e", "x", "t",
      "_", "p", "h", "a", "s", "e", ":", " ", "r", "e", "n", "o", "\r",
      "\n">>

\* the document of the coverage test: three stories, two of them done
DocTwoOfThree ==
    <<"s", "p", "r", "i", "n", "t", ":", "\n", " ", " ", "w", "o", "r",
      "k", "f", "l", "o", "w", ":", " ", "\"", "b", "u", "g", "f", "i",
      "x", "\"", "\n", " ", " ", "s", "t", "a", "t", "u", "s", ":", " ",
      "\"", "a", "c", "t", "i", "v", "e", "\"", "\n", " ", " ", "c", "u",
      "r", "r", "e", "n", "t", "_", "p", "h", "a", "s", "e", ":", " ",
      "\"", "r", "e", "n", "o", "\"", "\n", " ", " ", "n", "e", "x", "t",
      "_", "p", "h", "a", "s", "e", ":", " ", "\"", "p", "a", "l", "m",
      "e", "r", "\"", "\n", " ", " ", "q", "u", "a", "l", "i", "t", "y",
      "_", "t", "i", "e", "r", ":", " ", "\"", "M", "i", "n", "i", "m",
      "a", "l", "\"", "\n", "\n", "s", "t", "o", "r", "i", "e", "s", ":",
      "\n", " ", " ", "-", " ", "i", "d", ":", " ", "\"", "S", "T", "-",
      "1", "\"", "\n", " ", " ", " ", " ", "n", "a", "m", "e", ":", " ",
      "\"", "F", "i", "r", "s", "t", "\"", "\n", " ", " ", " ", " ", "s",
      "t", "a", "t", "u", "s", ":", " ", "\"", "d", "o", "n", "e", "\"",
      "\n", " ", " ", "-", " ", "i", "d", ":", " ", "\"", "S", "T", "-",
      "2", "\"", "\n", " ", " ", " ", " ", "n", "a", "m", "e", ":", " ",
      "\"", "S", "e", "c", "o", "n", "d", "\"", "\n", " ", " ", " ", " ",
      "s", "t", "a", "t", "u", "s", ":", " ", "\"", "d", "o", "n", "e",
      "\"", "\n", " ", " ", "-", " ", "i", "d", ":", " ", "\"", "S", "T",
      "-", "3", "\"", "\n", " ", " ", " ", " ", "n", "a", "m", "e", ":",
      " ", "\"", "T", "h", "i", "r", "d", "\"", "\n", " ", " ", " ", " ",
      "s", "t", "a", "t", "u", "s", ":", " ", "\"", "i", "n", "-", "p",
      "r", "o", "g", "r", "e", "s", "s", "\"", "\n">>

\* an active sprint whose one story is done
DocOneDone ==
    <<"s", "p", "r", "i", "n", "t", ":", "\n", " ", " ", "s", "t", "a",
      "t", "u", "s", ":", " ", "\"", "a", "c", "t", "i", "v", "e", "\"",
      "\n", "s", "t", "o", "r", "i", "e", "s", ":", "\n", " ", " ", "-",
      " ", "i", "d", ":", " ", "\"", "S", "T", "-", "1", "\"", "\n", " ",
      " ", " ", " ", "s", "t", "a", "t", "u", "s", ":", " ", "\"", "d",
      "o", "n", "e", "\"", "\n">>

\* a sprint whose own status is a word of the story vocabulary
DocSprintInProgress ==
    <<"s", "p", "r", "i", "n", "t", ":", "\n", " ", " ", "s", "t", "a",
      "t", "u", "s", ":", " ", "\"", "i", "n", "-", "p", "r", "o", "g",
      "r", "e", "s", "s", "\"", "\n", "s", "t", "o", "r", "i", "e", "s",
      ":", "\n", " ", " ", "-", " ", "i", "d", ":", " ", "\"", "S", "T",
      "-", "1", "\"", "\n", " ", " ", " ", " ", "s", "t", "a", "t", "u",
      "s", ":", " ", "\"", "d", "o", "n", "e", "\"", "\n", " ", " ", "-",
      " ", "i", "d", ":", " ", "\"", "S", "T", "-", "2", "\"", "\n", " ",
      " ", " ", " ", "s", "t", "a", "t", "u", "s", ":", " ", "\"", "b",
      "a", "c", "k", "l", "o", "g", "\"", "\n">>

\* an active sprint whose three stories are all done
DocAllDone ==
    <<"s", "p", "r", "i", "n", "t", ":", "\n", " ", " ", "s", "t", "a",
      "t", "u", "s", ":", " ", "\"", "a", "c", "t", "i", "v", "e", "\"",
      "\n", "s", "t", "o", "r", "i", "e", "s", ":", "\n", " ", " ", "-",
      " ", "i", "d", ":", " ", "\"", "S", "T", "-", "1", "\"", "\n", " ",
      " ", " ", " ", "s", "t", "a", "t", "u", "s", ":", " ", "\"", "d",
      "o", "n", "e", "\"", "\n", " ", " ", "-", " ", "i", "d", ":", " ",
      "\"", "S", "T", "-", "2", "\"", "\n", " ", " ", " ", " ", "s", "t",
      "a", "t", "u", "s", ":", " ", "\"", "d", "o", "n", "e", "\"", "\n",
      " ", " ", "-", " ", "i", "d", ":", " ", "\"", "S", "T", "-", "3",
      "\"", "\n", " ", " ", " ", " ", "s", "t", "a", "t", "u", "s", ":",
      " ", "\"", "d", "o", "n", "e", "\"", "\n">>

\* a zero-byte document
DocEmpty == <<>>


(***************************************************************************)
(* pre-compact-save.js: extractYAMLField                                   *)
(*   raw.match(new RegExp(field + ':\\s*"?([^"\\n]+)'))                    *)
(***************************************************************************)
\* \s
IsSpace(c) == c \in {" ", "\t", "\n", "\r"}
\* [^"\n]
IsValueChar(c) == c # "\"" /\ c # "\n"

\* the literal pat occurs in raw at index i
OccursAt(raw, i, pat) ==
    /\ i + Len(pat) - 1 <= Len(raw)
    /\ \A k \in 1..Len(pat) : raw[i + k - 1] = pat[k]

\* the length of the run of \s characters that starts at i
SpaceRun(raw, i) ==
    LET stop == CHOOSE j \in i..(Len(raw) + 1) :
                    /\ \A k \in i..(j - 1) : IsSpace(raw[k])
                    /\ (j = Len(raw) + 1 \/ ~IsSpace(raw[j]))
    IN  stop - i

\* the length of the run of [^"\n] characters that starts at i
ValueRun(raw, i) ==
    LET stop == CHOOSE j \in i..(Len(raw) + 1) :
                    /\ \A k \in i..(j - 1) : IsValueChar(raw[k])
                    /\ (j = Len(raw) + 1 \/ ~IsValueChar(raw[j]))
    IN  stop - i

\* with \s* having consumed the characters up to q (exclusive), where the
\* capture group starts: after an opening quote if there is one ("? is
\* greedy), 0 when [^"\n]+ cannot match there
CaptureFrom(raw, q) ==
    IF q > Len(raw) THEN 0
    ELSE IF raw[q] = "\""
         THEN IF q + 1 <= Len(raw) /\ IsValueChar(raw[q + 1]) THEN q + 1 ELSE 0
         ELSE IF IsValueChar(raw[q]) THEN q ELSE 0

\* the capture start of the match of the pattern whose field: ends before
\* j: \s* is greedy and gives characters back until the rest matches.
\* 0 when no match starts there.
CaptureStart(raw, j) ==
    LET m == SpaceRun(raw, j)
        good == {k \in 0..m : CaptureFrom(raw, j + k) # 0}
    IN  IF good = {} THEN 0
        ELSE CaptureFrom(raw, j + (CHOOSE k \in good : \A h \in good : h <= k))

NoTrim(t) == t
\* String.prototype.trim
Trim(t) ==
    LET keep == {k \in 1..Len(t) : ~IsSpace(t[k])}
    IN  IF keep = {} THEN <<>>
        ELSE LET a == CHOOSE k \in keep : \A h \in keep : k <= h
                 b == CHOOSE k \in keep : \A h \in keep : h <= k
             IN  SubSeq(t, a, b)

\* the result of extractYAMLField: null, or the trimmed capture
NoMatch == [found |-> FALSE, text |-> <<>>]

\* match ? match[1] : null -- the capture as matched, before trim()
RawCapture(raw, field) ==
    LET key == field \o <<":">>
        hits == {i \in 1..Len(raw) :
                    OccursAt(raw, i, key) /\ CaptureStart(raw, i + Len(key)) # 0}
    IN  IF hits = {} THEN NoMatch
        ELSE LET i == CHOOSE x \in hits : \A y \in hits : x <= y
                 s == CaptureStart(raw, i + Len(key))
             IN  [found |-> TRUE,
                  text |-> SubSeq(raw, s, s + ValueRun(raw, s) - 1)]

extractYAMLField(raw, field) ==
    LET c == RawCapture(raw, field)
    IN  IF c.found THEN [found |-> TRUE, text |-> Trim(c.text)] ELSE NoMatch

\* extractYAMLField(raw, field) || "?"
Sentinel == <<"?">>
NoSentinel(m) == m.text
OrSentinel(m) == IF m.found /\ m.text # <<>> THEN m.text ELSE Sentinel


(***************************************************************************)
(* user-prompt-submit-rufus.js: the story count                            *)
(*   raw.match(/status:\s*"?(backlog|ready-for-dev|in-progress|review|done)/g) *)
(***************************************************************************)
W_backlog ==
    <<"b", "a", "c", "k", "l", "o", "g">>
W_ready_for_dev ==
    <<"r", "e", "a", "d", "y", "-", "f", "o", "r", "-", "d", "e", "v">>
W_in_progress ==
    <<"i", "n", "-", "p", "r", "o", "g", "r", "e", "s", "s">>
W_review ==
    <<"r", "e", "v", "i", "e", "w">>
W_done ==
    <<"d", "o", "n", "e">>
StatusWords == <<W_backlog, W_ready_for_dev, W_in_progress, W_review, W_done>>

\* the status word of the match that starts at i, 0 when none starts there
StoryMatchAt(raw, i) ==
    IF ~OccursAt(raw, i, F_status \o <<":">>) THEN 0
    ELSE LET j == i + Len(F_status) + 1
             q == j + SpaceRun(raw, j)
             w == IF q <= Len(raw) /\ raw[q] = "\"" THEN q + 1 ELSE q
             hit == {k \in 1..Len(StatusWords) : OccursAt(raw, w, StatusWords[k])}
         IN  IF hit = {} THEN 0 ELSE CHOOSE k \in hit : \A h \in hit : k <= h

\* stories: the matches of the document, as the status word of each
StoryMatches(raw) == {i \in 1..Len(raw) : StoryMatchAt(raw, i) # 0}

Max(a, b) == IF a >= b THEN a ELSE b
Min(a, b) == IF a <= b THEN a ELSE b

\* done / total: the matches holding "done", and one less than the matches
\* because the sprint's own status line matches too
CountEveryMatch(raw) ==
    LET stories == StoryMatches(raw)
    IN  [done |-> Cardinality({i \in stories : StatusWords[StoryMatchAt(raw, i)] = W_done}),
         total |-> Cardinality(stories)]
CountStories(raw) ==
    LET stories == StoryMatches(raw)
    IN  [done |-> Cardinality({i \in stories : StatusWords[StoryMatchAt(raw, i)] = W_done}),
         total |-> Max(Cardinality(stories) - 1, 0)]


(***************************************************************************)
(* JSON values and the files of the project directory.                     *)
(***************************************************************************)
\* a JSON value: its type, its text, and how many keys Object.keys gives
JValue(t, v, n) == [t |-> t, v |-> v, keys |-> n]
Undefined == JValue("undefined", "", 0)
JNull == JValue("null", "null", 0)
JFalse == JValue("boolean", "false", 0)
JTrue == JValue("boolean", "true", 0)
JZero == JValue("number", "0", 0)
JSeven == JValue("number", "7", 0)
EmptyString == JValue("string", "", 0)
EmptyObject == JValue("object", "{}", 0)
EmptyArray == JValue("array", "[]", 0)
NotesText == JValue("string", "Turks integration test session", 30)
OneCharString == JValue("string", "x", 1)
TwoAgents == JValue("object", "{hojo:agent-mock-001,tseng:agent-mock-002}", 2)
TwoDecisions == JValue("array", "[decision-alpha,decision-beta]", 2)

\* JavaScript truthiness, as || and if read it
Truthy(j) ==
    CASE j.t \in {"undefined", "null"} -> FALSE
      [] j.t = "boolean" -> j.v = "true"
      [] j.t = "number" -> j.v # "0"
      [] j.t = "string" -> j.v # ""
      [] OTHER -> TRUE

\* the sprint member of a snapshot: absent, or an object holding the six
\* extracted fields in SprintFields order (no field at all for {})
NoSprint == [kind |-> "undefined", data |-> <<>>]
SprintObject(data) == [kind |-> "object", data |-> data]

\* the members of a top-level JSON object of the state file
Doc(aa, pd, nt, extra) ==
    [last_compaction |-> Undefined, sprint |-> NoSprint, active_agents |-> aa,
     pending_decisions |-> pd, notes |-> nt, custom |-> extra]
EmptyDoc == Doc(Undefined, Undefined, Undefined, Undefined)

\* what a path of the project directory holds: nothing, a directory, or a
\* file whose text is unparseable (empty, binary, truncated), or the JSON
\* text of null, of an array, or of an object with members doc
FileAbsent == [kind |-> "absent", top |-> "none", doc |-> EmptyDoc]
FileDir == [kind |-> "dir", top |-> "none", doc |-> EmptyDoc]
FileGarbage == [kind |-> "text", top |-> "unparseable", doc |-> EmptyDoc]
FileNull == [kind |-> "text", top |-> "null", doc |-> EmptyDoc]
FileArray == [kind |-> "text", top |-> "array", doc |-> EmptyDoc]
FileObject(doc) == [kind |-> "text", top |-> "object", doc |-> doc]
\* the file between the open and the write of writeFileSync, and a file in
\* which the end of a longer text follows a shorter one written over it
FileEmpty == [kind |-> "text", top |-> "empty", doc |-> EmptyDoc]
FileTorn(longer) == [kind |-> "text", top |-> "torn", doc |-> longer]
\* a process that has not reached the read of the state file holds none
FileUnread == [kind |-> "unread", top |-> "none", doc |-> EmptyDoc]

\* the state files that other writers (the orchestrator, the tests) leave
StateFixtures ==
    { FileAbsent, FileDir, FileGarbage, FileNull, FileArray,
      FileObject(EmptyDoc),
      FileObject(Doc(TwoAgents, TwoDecisions, NotesText, Undefined)),
      FileObject(Doc(EmptyObject, EmptyArray, EmptyString, Undefined)),
      FileObject(Doc(JNull, JNull, JNull, Undefined)),
      FileObject(Doc(JFalse, JZero, JZero, Undefined)),
      FileObject(Doc(OneCharString, JSeven, JTrue, Undefined)),
      FileObject(Doc(TwoAgents, Undefined, Undefined, OneCharString)) }

\* sprint-status.yaml: absent, a directory, or a file with text
SprintAbsent == [kind |-> "absent", text |-> <<>>]
SprintDir == [kind |-> "dir", text |-> <<>>]
SprintText(t) == [kind |-> "text", text |-> t]
SprintFixtures ==
    { SprintAbsent, SprintDir, SprintText(DocEmpty), SprintText(DocPartial),
      SprintText(DocFull), SprintText(DocUnquoted) }

(***************************************************************************)
(* pre-compact-save.js: safeRead, safeParseJSON, the snapshot              *)
(***************************************************************************)
\* safeRead(filePath): the text, or null when the path is absent or
\* readFileSync throws (a directory)
RawNull == [top |-> "null", doc |-> EmptyDoc]
safeRead(f) == IF f.kind = "text" THEN [top |-> f.top, doc |-> f.doc] ELSE RawNull

\* safeParseJSON(str): the parsed value, or null when JSON.parse throws;
\* JSON.parse(null) is null
\* JSON.parse throws on the empty text of a file just opened for writing
\* and on a snapshot followed by the rest of a longer one
NoJson == {"unparseable", "empty", "torn"}
safeParseJSON(raw) == IF raw.top \in NoJson THEN RawNull ELSE raw

\* safeParseJSON(stateRaw) || {}
existingStateOf(f) ==
    LET parsed == safeParseJSON(safeRead(f))
    IN  IF parsed.top = "null" THEN [top |-> "object", doc |-> EmptyDoc] ELSE parsed

NeighbourMember(existing, name) ==
    IF existing.top = "object"
    THEN existing.doc[CASE name = "active_agents" -> "pending_decisions"
                        [] name = "pending_decisions" -> "notes"
                        [] OTHER -> "active_agents"]
    ELSE Undefined
\* existingState.<name>: only an object has the member
Member(existing, name) ==
    IF existing.top = "object" THEN existing.doc[name] ELSE Undefined

\* x || d
KeepAlways(x, d) == x
OrDefault(x, d) == IF Truthy(x) THEN x ELSE d

\* new Date().toISOString() at clock reading t
Timestamp(t) == JValue("string", ToString(t), 24)

\* sprintData: the six fields of a non-empty document, {} otherwise
\* (if (sprintRaw) is false for null and for "")
ReadSprint(f) == IF f.kind = "text" THEN f.text ELSE <<>>
SprintDataOf(raw) ==
    IF raw = <<>> THEN <<>>
    ELSE [k \in 1..Len(SprintFields) |->
             OrSentinel(extractYAMLField(raw, SprintFields[k]))]

\* sprint: sprintData, whatever sprint the prior snapshot holds
MergedSprint(existing, sprintData) ==
    IF existing.top = "object" /\ existing.doc.sprint.kind = "object"
    THEN SprintObject(
             [k \in 1..Max(Len(sprintData), Len(existing.doc.sprint.data)) |->
                 IF k <= Len(sprintData) /\ sprintData[k] # Sentinel
                 THEN sprintData[k]
                 ELSE IF k <= Len(existing.doc.sprint.data)
                      THEN existing.doc.sprint.data[k] ELSE sprintData[k]])
    ELSE SprintObject(sprintData)
FreshSprint(existing, sprintData) == SprintObject(sprintData)

\* the object literal names five members: whatever else existingState
\* holds is not in it
CarriedMember(existing) == Member(existing, "custom")
ExtraMember(existing) == Undefined

\* the sessionState object main builds
BuildSessionState(existing, sprintData, t) ==
    [last_compaction |-> Timestamp(t),
     sprint |-> FreshSprint(existing, sprintData),
     active_agents |-> OrDefault(Member(existing, "active_agents"), EmptyObject),
     pending_decisions |-> OrDefault(Member(existing, "pending_decisions"), EmptyArray),
     notes |-> OrDefault(Member(existing, "notes"), EmptyString),
     custom |-> ExtraMember(existing)]

\* agentIdsSummary: the entries of active_agents, or "None saved."
NoneSaved == JValue("string", "None saved.", 0)
AgentIdsSummary(aa) == IF Truthy(aa) /\ aa.keys > 0 THEN aa ELSE NoneSaved

(***************************************************************************)
(* lib/memory-fallback.js                                                  *)
(***************************************************************************)
\* MCP_MEMORY_HEALTHY in the environment
HealthEnv == {"unset", "false", "true"}
\* what answers on 127.0.0.1:MCP_HTTP_PORT: a server that responds with a
\* success status, one that responds with an error status, nothing
\* (connection refused), or something that never responds; or the port
\* number is one http.get rejects; or no node executable can be spawned; or
\* a server that keeps the socket busy without ever completing a response
Services ==
    {"ok", "status500", "refused", "silent", "invalidPort", "spawnFails",
     "trickling"}

\* the probe subprocess: exit 0 from the response callback, exit 1 on
\* 'error' and on 'timeout'
StatusChecked(svc) == IF svc = "ok" THEN 0 ELSE 1
ProbeExit(svc) == IF svc \in {"ok", "status500"} THEN 0 ELSE 1

isMemoryServiceHealthy(env, svc) ==
    IF env = "false" THEN FALSE ELSE ProbeExit(svc) = 0

\* execSync is reached only past the early return on the override
AlwaysSpawned(env) == TRUE
ProbeSpawned(env) == env # "false"

\* execSync raises when the subprocess cannot be spawned, exits non-zero
\* or outlives HEALTH_TIMEOUT_MS + 500
ExecSyncThrows(env, svc) == ProbeSpawned(env) /\ ProbeExit(svc) # 0

\* catch { return false }: nothing raised inside the try leaves the function
HealthRethrown(threw) == threw
HealthCaught(threw) == FALSE

\* one call of isMemoryServiceHealthy as its caller observes it
NoProbe ==
    [called |-> FALSE, env |-> None, svc |-> None, spawned |-> FALSE,
     raised |-> FALSE, value |-> FALSE]
HealthCall(env, svc) ==
    [called |-> TRUE, env |-> env, svc |-> svc, spawned |-> ProbeSpawned(env),
     raised |-> HealthCaught(ExecSyncThrows(env, svc)),
     value |-> isMemoryServiceHealthy(env, svc)]

(***************************************************************************)
(* lib/memory-fallback.js: MCP_HTTP_PORT and the probe command             *)
(*   const MCP_HTTP_PORT = parseInt(process.env.MCP_HTTP_PORT, 10) || 8000 *)
(***************************************************************************)
DigitChars == <<"0", "1", "2", "3", "4", "5", "6", "7", "8", "9">>
IsDigit(c) == \E k \in 1..10 : DigitChars[k] = c
DigitValue(c) == (CHOOSE k \in 1..10 : DigitChars[k] = c) - 1

\* the white space parseInt skips before the number
IsWhite(c) == c \in {" ", "\t", "\n", "\r"}
RECURSIVE SkipWhite(_, _)
SkipWhite(s, i) ==
    IF i <= Len(s) /\ IsWhite(s[i]) THEN SkipWhite(s, i + 1) ELSE i

\* the digits parseInt reads: the longest run of decimal digits from i on
RestFrom(s, i) == SubSeq(s, i, Len(s))
DigitsFrom(s, i) ==
    LET stops == {k \in i..Len(s) : ~IsDigit(s[k])}
        last == IF stops = {} THEN Len(s)
                ELSE (CHOOSE k \in stops : \A j \in stops : k <= j) - 1
    IN  SubSeq(s, i, last)

RECURSIVE StripZeros(_)
StripZeros(d) == IF Len(d) > 1 /\ d[1] = "0" THEN StripZeros(Tail(d)) ELSE d

\* a Number that holds an integer: its sign and its decimal digits, or NaN,
\* or Infinity
PortNaN == [kind |-> "NaN", neg |-> FALSE, digits |-> <<>>]
PortInfinity(neg) == [kind |-> "Infinity", neg |-> neg, digits |-> <<>>]
PortNum(neg, d) == [kind |-> "number", neg |-> neg, digits |-> d]

\* an integer of more than 309 digits is beyond Number.MAX_VALUE
MaxDoubleDigits == 309

\* process.env.MCP_HTTP_PORT: unset, or a string
EnvUnset == [set |-> FALSE, text |-> <<>>]
EnvValue(t) == [set |-> TRUE, text |-> t]

\* parseInt(value, 10): white space, a sign, digits; NaN without a digit
\* (and for undefined)
parseInt(env) ==
    IF ~env.set THEN PortNaN
    ELSE LET t == env.text
             i == SkipWhite(t, 1)
             signed == i <= Len(t) /\ t[i] \in {"+", "-"}
             neg == signed /\ t[i] = "-"
             d == DigitsFrom(t, IF signed THEN i + 1 ELSE i)
         IN  IF d = <<>> THEN PortNaN
             ELSE IF Len(StripZeros(d)) > MaxDoubleDigits THEN PortInfinity(neg)
             ELSE PortNum(neg, StripZeros(d))

DefaultPort == PortNum(FALSE, <<"8", "0", "0", "0">>)
\* n || 8000: NaN and zero are falsy
NoDefault(n) == n
OrDefaultPort(n) ==
    IF n.kind = "NaN" \/ (n.kind = "number" /\ n.digits = <<"0">>)
    THEN DefaultPort ELSE n

MCP_HTTP_PORT(env) == OrDefaultPort(parseInt(env))

\* the decimal digits of a natural number
RECURSIVE DecimalChars(_)
DecimalChars(n) ==
    IF n < 10 THEN <<DigitChars[n + 1]>>
    ELSE DecimalChars(n \div 10) \o <<DigitChars[(n % 10) + 1]>>

RECURSIVE DropTrailingZeros(_)
DropTrailingZeros(d) ==
    IF Len(d) > 1 /\ d[Len(d)] = "0"
    THEN DropTrailingZeros(SubSeq(d, 1, Len(d) - 1)) ELSE d

\* Number::toString writes an integer below 10^21 digit by digit and a
\* larger one in exponent form
ExpThreshold == 21

\* ${MCP_HTTP_PORT}: the number as the template literal writes it (exact
\* for the integers a double holds exactly)
NumberToString(n) ==
    LET sign == IF n.neg THEN <<"-">> ELSE <<>>
    IN  CASE n.kind = "NaN" -> <<"N", "a", "N">>
          [] n.kind = "Infinity" ->
                sign \o <<"I", "n", "f", "i", "n", "i", "t", "y">>
          [] n.kind = "number" /\ Len(n.digits) <= ExpThreshold -> sign \o n.digits
          [] OTHER ->
                LET m == DropTrailingZeros(n.digits)
                IN  sign \o <<m[1]>>
                      \o (IF Len(m) > 1 THEN <<".">> \o Tail(m) ELSE <<>>)
                      \o <<"e", "+">> \o DecimalChars(Len(n.digits) - 1)

\* the probe template before and after ${MCP_HTTP_PORT}, with
\* ${HEALTH_TIMEOUT_MS} filled in
ProbeBefore ==
    <<"\n", " ", " ", " ", " ", " ", " ", "c", "o", "n", "s", "t", " ",
      "h", "t", "t", "p", " ", "=", " ", "r", "e", "q", "u", "i", "r", "e",
      "(", "'", "h", "t", "t", "p", "'", ")", ";", "\n", " ", " ", " ",
      " ", " ", " ", "c", "o", "n", "s", "t", " ", "r", "e", "q", " ", "=",
      " ", "h", "t", "t", "p", ".", "g", "e", "t", "(", "\n", " ", " ",
      " ", " ", " ", " ", " ", " ", "{", " ", "h", "o", "s", "t", "n", "a",
      "m", "e", ":", " ", "'", "1", "2", "7", ".", "0", ".", "0", ".", "1",
      "'", ",", " ", "p", "o", "r", "t", ":", " ">>
ProbeAfter ==
    <<",", " ", "p", "a", "t", "h", ":", " ", "'", "/", "'", ",", " ", "t",
      "i", "m", "e", "o", "u", "t", ":", " ", "2", "0", "0", "0", " ", "}",
      ",", "\n", " ", " ", " ", " ", " ", " ", " ", " ", "(", "r", "e",
      "s", ")", " ", "=", ">", " ", "{", " ", "p", "r", "o", "c", "e", "s",
      "s", ".", "e", "x", "i", "t", "(", "0", ")", ";", " ", "}", "\n",
      " ", " ", " ", " ", " ", " ", ")", ";", "\n", " ", " ", " ", " ",
      " ", " ", "r", "e", "q", ".", "o", "n", "(", "'", "e", "r", "r", "o",
      "r", "'", ",", " ", "(", ")", " ", "=", ">", " ", "p", "r", "o", "c",
      "e", "s", "s", ".", "e", "x", "i", "t", "(", "1", ")", ")", ";",
      "\n", " ", " ", " ", " ", " ", " ", "r", "e", "q", ".", "o", "n",
      "(", "'", "t", "i", "m", "e", "o", "u", "t", "'", ",", " ", "(", ")",
      " ", "=", ">", " ", "{", " ", "r", "e", "q", ".", "d", "e", "s", "t",
      "r", "o", "y", "(", ")", ";", " ", "p", "r", "o", "c", "e", "s", "s",
      ".", "e", "x", "i", "t", "(", "1", ")", ";", " ", "}", ")", ";",
      "\n", " ", " ", " ", " ">>
ProbeText(port) == ProbeBefore \o NumberToString(port) \o ProbeAfter

\* .replace(/\n/g, ' ')
Flatten(t) == [k \in 1..Len(t) |-> IF t[k] = "\n" THEN " " ELSE t[k]]
\* .replace(/"/g, '\\"')
RECURSIVE EscapeQuotes(_)
EscapeQuotes(t) ==
    IF t = <<>> THEN <<>>
    ELSE IF Len(t) = 1 THEN (IF t[1] = "\"" THEN <<"\\", "\"">> ELSE t)
    ELSE LET half == Len(t) \div 2
         IN  EscapeQuotes(SubSeq(t, 1, half))
                 \o EscapeQuotes(SubSeq(t, half + 1, Len(t)))

NodeE == <<"n", "o", "d", "e", " ", "-", "e", " ", "\"">>
\* the command execSync is given
ProbeCommand(port) == NodeE \o EscapeQuotes(Flatten(ProbeText(port))) \o <<"\"">>

\* the value of at most five digits
RECURSIVE SmallValue(_)
SmallValue(d) ==
    IF d = <<>> THEN 0
    ELSE SmallValue(SubSeq(d, 1, Len(d) - 1)) * 10 + DigitValue(d[Len(d)])
MaxPort == 65535
\* http.get accepts the port
PortValid(n) ==
    /\ n.kind = "number" /\ ~n.neg
    /\ Len(n.digits) <= 5
    /\ \A k \in 1..Len(n.digits) : IsDigit(n.digits[k])
    /\ SmallValue(n.digits) <= MaxPort

\* values of MCP_HTTP_PORT
E_empty ==
    <<>>
E_not_a_number ==
    <<"n", "o", "t", "-", "a", "-", "n", "u", "m", "b", "e", "r">>
E_8000 ==
    <<"8", "0", "0", "0">>
E_9000 ==
    <<"9", "0", "0", "0">>
E_zero ==
    <<"0">>
E_minus_one ==
    <<"-", "1">>
E_99999 ==
    <<"9", "9", "9", "9", "9">>
E_padded ==
    <<" ", "4", "2">>
E_plus ==
    <<"+", "7">>
E_prefix ==
    <<"1", "2", "a", "b", "c">>
E_fraction ==
    <<"3", ".", "5">>
E_exponent ==
    <<"1", "e", "3">>
E_hex ==
    <<"0", "x", "1", "F">>
E_Infinity ==
    <<"I", "n", "f", "i", "n", "i", "t", "y">>
E_payload ==
    <<"8", "0", "0", "0", " ", "}", ")", ";", " ", "p", "r", "o", "c", "e",
      "s", "s", ".", "s", "t", "d", "o", "u", "t", ".", "w", "r", "i", "t",
      "e", "(", "'", "I", "N", "J", "E", "C", "T", "E", "D", "'", ")", ";",
      " ", "p", "r", "o", "c", "e", "s", "s", ".", "e", "x", "i", "t", "(",
      "0", ")", ";", " ", "/", "/">>
E_shell ==
    <<"8", "0", "0", "0", "\"", " ", ";", " ", "t", "o", "u", "c", "h",
      " ", "/", "t", "m", "p", "/", "x", " ", ";", " ", "\"">>
E_subst ==
    <<"$", "(", "i", "d", ")">>
E_ten_to_21 == [k \in 1..22 |-> IF k = 1 THEN "1" ELSE "0"]
E_huge == [k \in 1..310 |-> "9"]
PortEnvs ==
    {EnvUnset} \cup
    { EnvValue(t) : t \in
        { E_empty, E_not_a_number, E_8000, E_9000, E_zero,
          E_minus_one, E_99999, E_padded, E_plus, E_prefix,
          E_fraction, E_exponent, E_hex, E_Infinity,
          E_payload, E_shell, E_subst,
          E_ten_to_21, E_huge } }

\* the module before it is loaded
NotLoaded ==
    [loaded |-> FALSE, env |-> EnvUnset, port |-> PortNaN, command |-> <<>>,
     message |-> [called |-> FALSE,
                  arg |-> [type |-> "undefined", flag |-> FALSE, num |-> 0,
                           text |-> "", throws |-> FALSE],
                  raised |-> FALSE, type |-> "undefined", value |-> ""]]

\* the members every object inherits from Object.prototype: a lookup by
\* one of these names finds a function, which is truthy
PrototypeKeys == {"constructor", "toString", "valueOf", "hasOwnProperty"}
InheritedMember == "[inherited Object.prototype member]"

DefaultFallback == "[MCP MEMORY FALLBACK] mcp-memory-service est indisponible. Les operations memoire sont temporairement desactivees."
FallbackMessages ==
    [h \in {"ensure-memory-server", "subagent-stop-memory", "pre-compact-save"} |->
        CASE h = "ensure-memory-server" ->
               "[MCP MEMORY FALLBACK] mcp-memory-service est indisponible. La configuration MCP a ete ecrite mais le service ne repond pas. Les operations memoire seront ignorees jusqu'a ce que le service soit relance."
          [] h = "subagent-stop-memory" ->
               "[MCP MEMORY FALLBACK] mcp-memory-service est indisponible. store_memory() ne sera pas executee. Les resultats de l'agent ne seront pas persistes en memoire. Relancez le service pour reactiver la persistance."
          [] h = "pre-compact-save" ->
               "[MCP MEMORY FALLBACK] mcp-memory-service est indisponible. retrieve_memory() pourrait echouer apres le compactage. Le contexte local (sprint-status.yaml, .mako-session-state.json) reste disponible."]

\* FALLBACK_MESSAGES[key] || DEFAULT_FALLBACK
memoryFallbackMessage(hook) ==
    IF hook \in DOMAIN FallbackMessages THEN FallbackMessages[hook]
    ELSE IF hook \in PrototypeKeys THEN InheritedMember
    ELSE DefaultFallback

\* the values a caller can hand to memoryFallbackMessage: a JavaScript value
\* with what String() makes of it; flag is the value of a boolean and the
\* NaN-ness of a number, text the characters of a string, the description
\* of a symbol, the result of an object's toString or the join of an array
HookValue(type, flag, num, text, throws) ==
    [type |-> type, flag |-> flag, num |-> num, text |-> text, throws |-> throws]
H_undefined     == HookValue("undefined", FALSE, 0, "", FALSE)
H_null          == HookValue("null", FALSE, 0, "", FALSE)
H_false         == HookValue("boolean", FALSE, 0, "", FALSE)
H_true          == HookValue("boolean", TRUE, 0, "", FALSE)
H_NaN           == HookValue("number", TRUE, 0, "", FALSE)
H_Number(n)     == HookValue("number", FALSE, n, "", FALSE)
H_String(t)     == HookValue("string", FALSE, 0, t, FALSE)
H_Symbol(t)     == HookValue("symbol", FALSE, 0, t, FALSE)
H_Object(t)     == HookValue("object", FALSE, 0, t, FALSE)
H_NoToString    == HookValue("object", FALSE, 0, "", TRUE)
H_Array(t)      == HookValue("array", FALSE, 0, t, FALSE)
HookNumbers == {0, 42, 0 - 1}
HookStrings ==
    {"", "ensure-memory-server", "subagent-stop-memory", "pre-compact-save",
     "unknown-hook", "xxxxxxxxxxxxxxxx", "constructor", "toString",
     "Ensure-Memory-Server", " pre-compact-save"}
HookValues ==
    {H_undefined, H_null, H_false, H_true, H_NaN, H_NoToString}
      \cup { H_Number(n) : n \in HookNumbers }
      \cup { H_String(t) : t \in HookStrings }
      \cup { H_Symbol(t) : t \in {"test"} }
      \cup { H_Object(t) : t \in {"[object Object]", "ensure-memory-server", "valueOf"} }
      \cup { H_Array(t) : t \in {"", "ensure-memory-server", "hasOwnProperty"} }

\* hook || ''
HookTruthy(v) ==
    CASE v.type \in {"undefined", "null"} -> FALSE
      [] v.type = "boolean" -> v.flag
      [] v.type = "number" -> ~v.flag /\ v.num # 0
      [] v.type = "string" -> v.text # ""
      [] OTHER -> TRUE
OrEmptyString(v) == IF HookTruthy(v) THEN v ELSE H_String("")

\* String(v): an object is asked for its primitive and may raise
StringThrows(v) == v.throws
String(v) ==
    CASE v.type = "undefined" -> "undefined"
      [] v.type = "null" -> "null"
      [] v.type = "boolean" -> IF v.flag THEN "true" ELSE "false"
      [] v.type = "number" -> IF v.flag THEN "NaN" ELSE ToString(v.num)
      [] v.type = "symbol" -> "Symbol(" \o v.text \o ")"
      [] OTHER -> v.text

\* typeof of what a lookup in FALLBACK_MESSAGES gave
TypeOf(value) == IF value = InheritedMember THEN "function" ELSE "string"

\* one call of memoryFallbackMessage with its try/catch
MessageCall(v) ==
    LET arg   == OrEmptyString(v)
        value == IF StringThrows(arg) THEN DefaultFallback
                 ELSE memoryFallbackMessage(String(arg))
    IN  [called |-> TRUE, arg |-> v, raised |-> FALSE,
         type |-> TypeOf(value), value |-> value]

\* memoryWarning: empty when healthy
NoWarning == ""
AlwaysWarns(healthy, hook) == memoryFallbackMessage(hook)
MemoryWarning(healthy, hook) ==
    IF healthy THEN NoWarning ELSE memoryFallbackMessage(hook)


(***************************************************************************)
(* subagent-stop-memory.js: the routing table                              *)
(***************************************************************************)
ROUTING ==
    [a \in {"tseng", "scarlet", "genesis", "reeve", "heidegger", "lazard",
            "hojo", "reno", "elena", "palmer", "rude", "sephiroth", "jenova"} |->
        CASE a = "tseng" -> "scarlet or reeve (depending on workflow)"
          [] a = "scarlet" -> "reeve (architecture)"
          [] a = "genesis" -> "reeve or heidegger (depending on workflow)"
          [] a = "reeve" -> "alignment gate then heidegger or hojo"
          [] a = "heidegger" -> "lazard (if Standard+) or hojo"
          [] a = "lazard" -> "hojo"
          [] a = "hojo" -> "reno (testing)"
          [] a = "reno" -> "elena (security + edge cases)"
          [] a = "elena" -> "palmer (docs) or rude (review)"
          [] a = "palmer" -> "rude (review)"
          [] a = "rude" -> "DoD gate then retrospective"
          [] a = "sephiroth" -> "hojo (apply fix) or jenova (meta-learning)"
          [] a = "jenova" -> "report to user"]
DefaultNextStep == "check workflow in sprint-status.yaml"

\* ROUTING[agentName] || "check workflow in sprint-status.yaml"
NextStep(agentName) ==
    IF agentName \in DOMAIN ROUTING THEN ROUTING[agentName]
    ELSE IF agentName \in PrototypeKeys THEN InheritedMember
    ELSE DefaultNextStep

\* what the hook reads on stdin: nothing, text that is not JSON, or a JSON
\* object whose agent_type is absent, not a string, a string without
\* "mako:<word>", or a string holding "mako:<name>"
StdinEmpty == [kind |-> "empty", form |-> "absent", name |-> ""]
StdinGarbage == [kind |-> "garbage", form |-> "absent", name |-> ""]
StdinJSON(form, name) == [kind |-> "json", form |-> form, name |-> name]
StdinInputs ==
    { StdinEmpty, StdinGarbage, StdinJSON("absent", ""),
      StdinJSON("number", ""), StdinJSON("plain", "hojo"),
      StdinJSON("mako", "hojo"), StdinJSON("mako", "jenova"),
      StdinJSON("mako", "lucrecia"), StdinJSON("mako", "constructor") }

\* agentName: "unknown" unless the input parses and agent_type matches
\* /mako:(\w+)/ (match on a non-string raises, which the inner catch eats)
\* the characters of the routing texts and of the snippets the routing
\* test looks for in them
CharsOf(text) ==
    CASE text = "scarlet or reeve (depending on workflow)" ->
          <<"s", "c", "a", "r", "l", "e", "t", " ", "o", "r", " ", "r",
            "e", "e", "v", "e", " ", "(", "d", "e", "p", "e", "n", "d",
            "i", "n", "g", " ", "o", "n", " ", "w", "o", "r", "k", "f",
            "l", "o", "w", ")">>
      [] text = "reeve (architecture)" ->
          <<"r", "e", "e", "v", "e", " ", "(", "a", "r", "c", "h", "i",
            "t", "e", "c", "t", "u", "r", "e", ")">>
      [] text = "reeve or heidegger (depending on workflow)" ->
          <<"r", "e", "e", "v", "e", " ", "o", "r", " ", "h", "e", "i",
            "d", "e", "g", "g", "e", "r", " ", "(", "d", "e", "p", "e",
            "n", "d", "i", "n", "g", " ", "o", "n", " ", "w", "o", "r",
            "k", "f", "l", "o", "w", ")">>
      [] text = "alignment gate then heidegger or hojo" ->
          <<"a", "l", "i", "g", "n", "m", "e", "n", "t", " ", "g", "a",
            "t", "e", " ", "t", "h", "e", "n", " ", "h", "e", "i", "d",
            "e", "g", "g", "e", "r", " ", "o", "r", " ", "h", "o", "j",
            "o">>
      [] text = "lazard (if Standard+) or hojo" ->
          <<"l", "a", "z", "a", "r", "d", " ", "(", "i", "f", " ", "S",
            "t", "a", "n", "d", "a", "r", "d", "+", ")", " ", "o", "r",
            " ", "h", "o", "j", "o">>
      [] text = "hojo" ->
          <<"h", "o", "j", "o">>
      [] text = "reno (testing)" ->
          <<"r", "e", "n", "o", " ", "(", "t", "e", "s", "t", "i", "n",
            "g", ")">>
      [] text = "elena (security + edge cases)" ->
          <<"e", "l", "e", "n", "a", " ", "(", "s", "e", "c", "u", "r",
            "i", "t", "y", " ", "+", " ", "e", "d", "g", "e", " ", "c",
            "a", "s", "e", "s", ")">>
      [] text = "palmer (docs) or rude (review)" ->
          <<"p", "a", "l", "m", "e", "r", " ", "(", "d", "o", "c", "s",
            ")", " ", "o", "r", " ", "r", "u", "d", "e", " ", "(", "r",
            "e", "v", "i", "e", "w", ")">>
      [] text = "rude (review)" ->
          <<"r", "u", "d", "e", " ", "(", "r", "e", "v", "i", "e", "w",
            ")">>
      [] text = "DoD gate then retrospective" ->
          <<"D", "o", "D", " ", "g", "a", "t", "e", " ", "t", "h", "e",
            "n", " ", "r", "e", "t", "r", "o", "s", "p", "e", "c", "t",
            "i", "v", "e">>
      [] text = "hojo (apply fix) or jenova (meta-learning)" ->
          <<"h", "o", "j", "o", " ", "(", "a", "p", "p", "l", "y", " ",
            "f", "i", "x", ")", " ", "o", "r", " ", "j", "e", "n", "o",
            "v", "a", " ", "(", "m", "e", "t", "a", "-", "l", "e", "a",
            "r", "n", "i", "n", "g", ")">>
      [] text = "report to user" ->
          <<"r", "e", "p", "o", "r", "t", " ", "t", "o", " ", "u", "s",
            "e", "r">>
      [] text = "check workflow in sprint-status.yaml" ->
          <<"c", "h", "e", "c", "k", " ", "w", "o", "r", "k", "f", "l",
            "o", "w", " ", "i", "n", " ", "s", "p", "r", "i", "n", "t",
            "-", "s", "t", "a", "t", "u", "s", ".", "y", "a", "m", "l">>
      [] text = "scarlet or reeve" ->
          <<"s", "c", "a", "r", "l", "e", "t", " ", "o", "r", " ", "r",
            "e", "e", "v", "e">>
      [] text = "reeve" ->
          <<"r", "e", "e", "v", "e">>
      [] text = "reeve or heidegger" ->
          <<"r", "e", "e", "v", "e", " ", "o", "r", " ", "h", "e", "i",
            "d", "e", "g", "g", "e", "r">>
      [] text = "alignment gate" ->
          <<"a", "l", "i", "g", "n", "m", "e", "n", "t", " ", "g", "a",
            "t", "e">>
      [] text = "lazard" ->
          <<"l", "a", "z", "a", "r", "d">>
      [] text = "reno" ->
          <<"r", "e", "n", "o">>
      [] text = "elena" ->
          <<"e", "l", "e", "n", "a">>
      [] text = "palmer" ->
          <<"p", "a", "l", "m", "e", "r">>
      [] text = "rude" ->
          <<"r", "u", "d", "e">>
      [] text = "DoD gate" ->
          <<"D", "o", "D", " ", "g", "a", "t", "e">>
      [] OTHER -> <<>>

\* String.prototype.includes, as expect(context).toContain(snippet) reads
\* the suggestion
Includes(text, snippet) ==
    \E i \in 1..Len(CharsOf(text)) : OccursAt(CharsOf(text), i, CharsOf(snippet))

\* routingCases of the routing test: the agent and the snippet its
\* suggestion has to contain
RoutingCases ==
    [a \in {"tseng", "scarlet", "genesis", "reeve", "heidegger", "lazard",
            "hojo", "reno", "elena", "palmer", "rude", "sephiroth", "lucrecia"} |->
        CASE a = "tseng" -> "scarlet or reeve"
          [] a = "scarlet" -> "reeve"
          [] a = "genesis" -> "reeve or heidegger"
          [] a = "reeve" -> "alignment gate"
          [] a = "heidegger" -> "lazard"
          [] a = "lazard" -> "hojo"
          [] a = "hojo" -> "reno"
          [] a = "reno" -> "elena"
          [] a = "elena" -> "palmer"
          [] a = "palmer" -> "rude"
          [] a = "rude" -> "DoD gate"
          [] a = "sephiroth" -> "hojo"
          [] a = "lucrecia" -> "report to user"]
RoutedInputs == {StdinJSON("mako", a) : a \in DOMAIN RoutingCases}

AgentNameOf(input) ==
    IF input.kind = "json" /\ input.form = "mako" THEN input.name ELSE "unknown"

(***************************************************************************)
(* What a hook writes to stdout                                            *)
(***************************************************************************)
NoStories == [done |-> 0, total |-> 0]
\* the parts of additionalContext / message that vary
NoBody ==
    [sprint |-> <<>>, agents |-> NoneSaved, shown |-> 0, agent |-> "",
     nextStep |-> "", phase |-> <<>>, next |-> <<>>, stories |-> NoStories,
     warning |-> NoWarning]
Envelope(eventName, result, fallback, body) ==
    [hookEventName |-> eventName, result |-> result, fallback |-> fallback,
     body |-> body]

\* where process.env.CLAUDE_PROJECT_DIR || process.cwd() leads: the
\* variable is set, or it is unset and the working directory exists, or it
\* is unset and the working directory was removed (process.cwd() raises)
ProjectDirs == {"env", "cwd", "cwdGone"}


(***************************************************************************)
(* What the hooks compute from the sprint document, per fixture text       *)
(***************************************************************************)
\* the documents with stories that the story count is run on
StoryFixtures ==
    { SprintText(DocTwoOfThree), SprintText(DocOneDone),
      SprintText(DocSprintInProgress), SprintText(DocAllDone) }

SprintTexts == {f.text : f \in SprintFixtures \cup StoryFixtures}

\* (raw.match(/field:\s*"?([^"\n]+)/) || [])[1] || ""
OrEmpty(m) == IF m.found THEN m.text ELSE <<>>

\* pre-compact-save: sprintData
SprintDataTable == [t \in SprintTexts |-> SprintDataOf(t)]

\* user-prompt-submit-rufus: workflow, status, phase, next, tier (the
\* capture untrimmed) and the story count
UpsFieldCount == 5
UpsFieldsTable ==
    [t \in SprintTexts |->
        [k \in 1..UpsFieldCount |-> OrSentinel(RawCapture(t, SprintFields[k]))]]
StoriesTable == [t \in SprintTexts |-> CountStories(t)]

\* subagent-stop-memory: phase and next
PhaseTable ==
    [t \in SprintTexts |->
        [phase |-> OrEmpty(RawCapture(t, F_current_phase)),
         next |-> OrEmpty(RawCapture(t, F_next_phase))]]




(***************************************************************************)
(* telemetry.js: logEvent                                                  *)
(***************************************************************************)
\* a JavaScript number: finite, NaN or Infinity
Num(n) == [kind |-> "number", n |-> n]
NaN == [kind |-> "NaN", n |-> 0]
Infinity == [kind |-> "Infinity", n |-> 0]
\* its JSON text: the number, or null for NaN and Infinity
NumberToJSON(d) == IF d.kind = "number" THEN d ELSE [kind |-> "null", n |-> 0]

\* metadata arguments: {} (the default), {error: msg}, a cyclic object,
\* {hook: undefined}, an object with a toJSON method that returns nothing
EmptyMeta == [kind |-> "empty", error |-> None]
UndefinedHookMeta == [kind |-> "undefinedHook", error |-> None]
ToJSONMeta == [kind |-> "toJSON", error |-> None]
ErrorMeta(msg) == [kind |-> "error", error |-> msg]
CyclicMeta == [kind |-> "cyclic", error |-> None]

\* Object.assign({timestamp, event, hook, duration_ms}, metadata)
BuildEntry(evt, hk, dur, meta) ==
    [event |-> evt,
     hook |-> IF meta.kind = "undefinedHook" THEN None ELSE hk,
     duration_ms |-> dur, toJSON |-> meta.kind = "toJSON",
     error |-> meta.error, cyclic |-> meta.kind = "cyclic"]

\* the members JSON.stringify writes: those whose value is not undefined
BaseKeys == {"timestamp", "event", "hook", "duration_ms"}
WrittenKeys(entry) ==
    {"timestamp", "duration_ms"}
        \cup (IF entry.event # None THEN {"event"} ELSE {})
        \cup (IF entry.hook # None THEN {"hook"} ELSE {})
        \cup (IF entry.error # None THEN {"error"} ELSE {})

\* JSON.stringify(entry) + '\n': one chunk, the record and its newline;
\* a cyclic entry makes JSON.stringify throw; an entry that has received a
\* toJSON method is serialised as what the method returns, and
\* JSON.stringify gives undefined when that is undefined, so the chunk is
\* the text "undefined" and its newline
Thrown == [thrown |-> TRUE]
Stringify(entry, call, inv) ==
    IF entry.cyclic THEN Thrown
    ELSE IF entry.toJSON
    THEN [thrown |-> FALSE, call |-> call, inv |-> inv,
          text |-> "undefined", keys |-> {},
          event |-> None, hook |-> None,
          duration_ms |-> NumberToJSON(NaN), error |-> None,
          nl |-> TRUE]
    ELSE [thrown |-> FALSE, call |-> call, inv |-> inv,
          text |-> "object", keys |-> WrittenKeys(entry),
          event |-> entry.event, hook |-> entry.hook,
          duration_ms |-> NumberToJSON(entry.duration_ms), error |-> entry.error,
          nl |-> TRUE]

\* fs.appendFileSync(TELEMETRY_FILE, line): the file keeps what it held
OverwriteLine(l, line) == <<line>>
AppendTwice(l, line) == l \o <<line, line>>
AppendLine(l, line) == Append(l, line)

\* catch (_err) { }: the failure stops here
Rethrow(threw) == threw
SilentCatch(threw) == FALSE

\* if (!dirEnsured) { if (!fs.existsSync(dir)) mkdirSync ... }: the
\* directory is looked for only while the cache flag is unset
AlwaysChecks(ensured, dir) == dir = "missing"
NeedsMkdir(ensured, dir) == ~ensured /\ dir = "missing"

\* dirEnsured = true is the statement after mkdirSync: it is not reached
\* when mkdirSync throws
EnsuredAnyway(ensured, mkThrows) == TRUE
EnsuredAfter(ensured, mkThrows) == IF mkThrows THEN ensured ELSE TRUE

\* logEvent in process state st = [log, telDir, ensured]; fsOk tells whether
\* the filesystem lets mkdir and append succeed at the time of the call
\* (it does not on a read-only or full disk); call and inv tag the chunk
\* with the call that wrote it.
logEvent(st, fsOk, evt, hk, dur, meta, call, inv) ==
    LET entry == BuildEntry(evt, hk, dur, meta)
        needMk == NeedsMkdir(st.ensured, st.telDir)
        mkThrows == needMk /\ ~fsOk
        dirAfter == IF needMk /\ fsOk THEN "present" ELSE st.telDir
        ensuredAfter == EnsuredAfter(st.ensured, mkThrows)
        line == Stringify(entry, call, inv)
        strThrows == ~mkThrows /\ line.thrown
        appThrows == ~mkThrows /\ ~strThrows
                     /\ (dirAfter = "missing" \/ ~fsOk)
        threw == mkThrows \/ strThrows \/ appThrows
    IN  [log |-> IF threw THEN st.log ELSE AppendLine(st.log, line),
         telDir |-> dirAfter,
         ensured |-> ensuredAfter,
         appended |-> ~threw,
         raised |-> SilentCatch(threw)]

ProcState(p) == [log |-> log, telDir |-> telDir, ensured |-> dirEnsured[p]]

\* the arguments of the direct calls
DirectArgs ==
    { [event |-> "hook_start", hook |-> "hook-a", dur |-> Num(0), meta |-> EmptyMeta],
      [event |-> "hook_end", hook |-> "hook-a", dur |-> Num(5), meta |-> EmptyMeta],
      [event |-> "hook_end", hook |-> "hook-a", dur |-> Num(-1), meta |-> EmptyMeta],
      [event |-> "hook_end", hook |-> "hook-a", dur |-> NaN, meta |-> EmptyMeta],
      [event |-> "hook_end", hook |-> "hook-a", dur |-> Infinity, meta |-> EmptyMeta],
      [event |-> "hook_start", hook |-> None, dur |-> Num(0), meta |-> EmptyMeta],
      [event |-> "hook_start", hook |-> "hook-a", dur |-> Num(0),
       meta |-> UndefinedHookMeta],
      [event |-> "hook_start", hook |-> "hook-a", dur |-> Num(0), meta |-> ToJSONMeta],
      [event |-> "hook_error", hook |-> "hook-b", dur |-> Num(0),
       meta |-> ErrorMeta("boom")],
      [event |-> "hook_error", hook |-> "hook-b", dur |-> Num(0), meta |-> CyclicMeta] }

\* the bookkeeping of one logEvent call with result r
Counted(r) ==
    /\ ncalls' = ncalls + 1
    /\ nfailed' = IF r.appended THEN nfailed ELSE nfailed + 1
    /\ logRaised' = (logRaised \/ r.raised)

Installed(p, r) ==
    /\ log' = r.log
    /\ telDir' = r.telDir
    /\ dirEnsured' = [dirEnsured EXCEPT ![p] = r.ensured]

\* a hook (or a test) calls logEvent(event, hook, duration_ms, metadata)
LogEventCall(p, a, fsOk) ==
    /\ ndirect < MaxDirect
    /\ LET r == logEvent(ProcState(p), fsOk, a.event, a.hook, a.dur, a.meta,
                         ncalls + 1, 0)
       IN  Installed(p, r) /\ Counted(r)
    /\ ndirect' = ndirect + 1
    /\ UNCHANGED <<wpc, wproc, wargs, wbodyArgs, wbody, wout, emitted, sesVars, shodhVars>>

(***************************************************************************)
(* telemetry.js: wrapHook                                                  *)
(***************************************************************************)
HookName(i) == IF i % 2 = 1 THEN "hook-a" ELSE "hook-b"

\* wrapped(...args): invocation i is called with its own argument
Value(n, i) == [name |-> n, of |-> i]
NoValue == Value("undefined", 0)
ArgsOf(i) == Value("arg", i)
\* Date.now() - start, the clock being whatever the host makes it
Elapsed == {3}
\* the same when the clock may stand still or be set back while the body
\* runs (Date.now() is the wall clock)
ClockElapsed == {-2, 0, 3}

\* what fn does: return a value, or raise an Error("x"), a value without a
\* message (a string), or null/undefined
BodyOutcomes(i) ==
    { [kind |-> "return", val |-> Value("result", i)],
      [kind |-> "throw", val |-> Value("Error(x)", i)],
      [kind |-> "throw", val |-> Value("string", i)],
      [kind |-> "throw", val |-> Value("null", 0)] }

\* err.message: reading a property of null or undefined raises a TypeError
HasProperties(err) == err.name # "null"
Message(err) == IF err.name = "Error(x)" THEN "x"
                ELSE IF err.name = "LogFailure" THEN "log failure"
                ELSE None

\* fn(...args)
DropArgs(args) == NoValue
PassArgs(args) == args

\* return result
ReturnUndefined(result) == NoValue
ReturnResult(result) == result

Emit(evt, dur, err, r) ==
    [event |-> evt, duration_ms |-> dur, error |-> err, appended |-> r.appended]

\* the catch block of wrappedHook, entered with err in state st
WrapCatch(st, fsOk, i, err, el, call) ==
    IF ~HasProperties(err)
    THEN [st |-> st, calls |-> <<>>, out |-> [kind |-> "throw", val |-> Value("TypeError", 0)],
          raised |-> FALSE]
    ELSE LET r == logEvent(st, fsOk, "hook_error", HookName(i), Num(el),
                           ErrorMeta(Message(err)), call, i)
         IN  [st |-> r,
              calls |-> <<Emit("hook_error", el, Message(err), r)>>,
              out |-> [kind |-> "throw",
                       val |-> IF r.raised THEN Value("LogFailure", 0) ELSE err],
              raised |-> r.raised]

\* wrappedHook(...args) up to the await: start = Date.now(),
\* logEvent('hook_start', hookName), fn(...args)
WrapCall(i, p, fsOk) ==
    /\ wpc[i] = "idle"
    /\ LET r == logEvent(ProcState(p), fsOk, "hook_start", HookName(i), Num(0), EmptyMeta,
                         ncalls + 1, i)
       IN  /\ Installed(p, r) /\ Counted(r)
           /\ emitted' = [emitted EXCEPT ![i] = <<Emit("hook_start", 0, None, r)>>]
           /\ IF r.raised
              THEN /\ wpc' = [wpc EXCEPT ![i] = "raised"]
                   /\ wout' = [wout EXCEPT ![i] = [kind |-> "throw", val |-> Value("LogFailure", 0)]]
                   /\ UNCHANGED wbodyArgs
              ELSE /\ wpc' = [wpc EXCEPT ![i] = "body"]
                   /\ wbodyArgs' = [wbodyArgs EXCEPT ![i] = PassArgs(ArgsOf(i))]
                   /\ UNCHANGED wout
    /\ wproc' = [wproc EXCEPT ![i] = p]
    /\ wargs' = [wargs EXCEPT ![i] = ArgsOf(i)]
    /\ UNCHANGED <<ndirect, wbody, sesVars, shodhVars>>

\* the await settles: hook_end and return, or the catch block
WrapBodyDone(i, b, el, fsOk) ==
    /\ wpc[i] = "body"
    /\ LET p == wproc[i]
           st == ProcState(p)
           rEnd == logEvent(st, fsOk, "hook_end", HookName(i), Num(el), EmptyMeta,
                            ncalls + 1, i)
           viaEnd == b.kind = "return"
           c == IF viaEnd /\ ~rEnd.raised
                THEN [st |-> rEnd, calls |-> <<>>,
                      out |-> [kind |-> "return", val |-> ReturnResult(b.val)],
                      raised |-> FALSE]
                ELSE IF viaEnd
                THEN WrapCatch(rEnd, fsOk, i, Value("LogFailure", 0), el, ncalls + 2)
                ELSE WrapCatch(st, fsOk, i, b.val, el, ncalls + 1)
           made == (IF viaEnd THEN <<Emit("hook_end", el, None, rEnd)>> ELSE <<>>)
                   \o c.calls
           lost == Cardinality({k \in 1..Len(made) : ~made[k].appended})
       IN  /\ Installed(p, c.st)
           /\ ncalls' = ncalls + Len(made)
           /\ nfailed' = nfailed + lost
           /\ logRaised' = (logRaised \/ c.raised \/ (viaEnd /\ rEnd.raised))
           /\ emitted' = [emitted EXCEPT ![i] = @ \o made]
           /\ wout' = [wout EXCEPT ![i] = c.out]
           /\ wpc' = [wpc EXCEPT ![i] = IF c.out.kind = "return" THEN "returned"
                                        ELSE "raised"]
    /\ wbody' = [wbody EXCEPT ![i] = b]
    /\ UNCHANGED <<ndirect, wproc, wargs, wbodyArgs, sesVars, shodhVars>>

(***************************************************************************)
(* The environment of the telemetry log.                                   *)
(***************************************************************************)
\* the host ends process p (exit or kill): its module state is gone and
\* its pending invocations never settle
ProcessExit(p) ==
    /\ dirEnsured[p] \/ \E i \in Invs : wpc[i] = "body" /\ wproc[i] = p
    /\ dirEnsured' = [dirEnsured EXCEPT ![p] = FALSE]
    /\ wpc' = [i \in Invs |-> IF wpc[i] = "body" /\ wproc[i] = p
                              THEN "killed" ELSE wpc[i]]
    /\ UNCHANGED <<log, telDir, ncalls, nfailed, ndirect, logRaised,
                   wproc, wargs, wbodyArgs, wbody, wout, emitted, sesVars, shodhVars>>

\* the telemetry directory is removed from outside (rm -rf, rotation)
RemoveTelemetryDir ==
    /\ telDir = "present"
    /\ telDir' = "missing"
    /\ log' = <<>>
    /\ ncalls' = 0
    /\ nfailed' = 0
    /\ UNCHANGED <<dirEnsured, ndirect, logRaised, wpc, wproc, wargs,
                   wbodyArgs, wbody, wout, emitted, sesVars, shodhVars>>

TelInit ==
    /\ log = <<>>
    /\ telDir = "missing"
    /\ dirEnsured = [p \in Procs |-> FALSE]
    /\ ncalls = 0
    /\ nfailed = 0
    /\ ndirect = 0
    /\ logRaised = FALSE
    /\ wpc = [i \in Invs |-> "idle"]
    /\ wproc = [i \in Invs |-> None]
    /\ wargs = [i \in Invs |-> NoValue]
    /\ wbodyArgs = [i \in Invs |-> NoValue]
    /\ wbody = [i \in Invs |-> [kind |-> None, val |-> NoValue]]
    /\ wout = [i \in Invs |-> [kind |-> None, val |-> NoValue]]
    /\ emitted = [i \in Invs |-> <<>>]

(***************************************************************************)
(* The hook processes.                                                     *)
(***************************************************************************)
NoSnapshot == [valid |-> FALSE, doc |-> EmptyDoc]
Snapshot(doc) == [valid |-> TRUE, doc |-> doc]

Quiescent == \A p \in HookProcs : hpc[p] = "idle"

\* process.stdout.write(JSON.stringify(...))
WriteTwice(out, envelope) == out \o <<envelope, envelope>>
WriteNothing(out, envelope) == out
WriteStdout(out, envelope) == Append(out, envelope)

\* the envelope of the outermost catch
\* the result member of that envelope: user-prompt-submit-rufus writes
\* { result: "continue" }, the other hooks have no such member
NoResult(kind) == ""
CatchResult(kind) == IF kind = "ups" THEN "continue" ELSE ""
CatchEnvelope(kind) ==
    CASE kind = "pcs" -> Envelope("PreCompact", CatchResult(kind), TRUE, NoBody)
      [] kind = "ssm" -> Envelope("SubagentStop", CatchResult(kind), TRUE, NoBody)
      [] kind = "ups" -> Envelope("", CatchResult(kind), TRUE, NoBody)

\* a fresh process starts hook kind in p
Started(p, kind) ==
    /\ hpc[p] = "idle"
    /\ hkind' = [hkind EXCEPT ![p] = kind]

\* the outermost catch of main
Caught(p, kind) ==
    /\ hout' = [hout EXCEPT ![p] = WriteStdout(<<>>, CatchEnvelope(kind))]
    /\ hpc' = [hpc EXCEPT ![p] = "exited"]
    /\ herr' = [herr EXCEPT ![p] = 0]
    /\ hprobe' = [hprobe EXCEPT ![p] = NoProbe]
    /\ UNCHANGED <<pwait, memfb>>

\* pre-compact-save main, up to the snapshot it builds
PcsStart(p, dir) ==
    /\ Started(p, "pcs")
    /\ hwrote' = [hwrote EXCEPT ![p] = FALSE]
    /\ IF dir = "cwdGone"
       THEN /\ Caught(p, "pcs")
            /\ hprior' = [hprior EXCEPT ![p] = FileUnread]
            /\ hstate' = [hstate EXCEPT ![p] = EmptyDoc]
       ELSE /\ hprior' = [hprior EXCEPT ![p] = stateFile]
            /\ hstate' = [hstate EXCEPT ![p] =
                   BuildSessionState(existingStateOf(stateFile),
                                     SprintDataTable[ReadSprint(sprintFile)], now)]
            /\ hout' = [hout EXCEPT ![p] = <<>>]
            /\ herr' = [herr EXCEPT ![p] = 0]
            /\ hprobe' = [hprobe EXCEPT ![p] = NoProbe]
            /\ UNCHANGED <<pwait, memfb>>
            /\ hpc' = [hpc EXCEPT ![p] = "write"]
    /\ UNCHANGED <<stateFile, sprintFile, now, ghostVars, telVars, shodhVars>>

\* where main continues after the try around writeFileSync: the empty catch
\* leads to the same statement as the success
ExitOnFailure(ok) == IF ok THEN "report" ELSE "exited"
HaltOnFailure(ok) == IF ok THEN "report" ELSE "failed"
AfterWrite(ok) == "report"

\* the two files of the project directory the hooks name, and the one
\* pre-compact-save hands to writeFileSync
sprintPath == "sprint-status.yaml"
statePath == ".mako-session-state.json"
WritesSprintPath == sprintPath
WrittenPath == statePath

\* fs.writeFileSync(statePath, ...) inside its own try
PcsWrite(p, fsOk) ==
    /\ hpc[p] = "write"
    /\ LET ok == fsOk /\ stateFile.kind # "dir"
       IN  /\ stateFile' = IF ok /\ WrittenPath = statePath
                           THEN FileObject(hstate[p]) ELSE stateFile
           /\ sprintFile' = IF ok /\ WrittenPath = sprintPath
                            THEN SprintText(DocEmpty) ELSE sprintFile
           /\ hwrote' = [hwrote EXCEPT ![p] = ok]
           /\ IF ok
              THEN /\ prevSnap' = IF settled THEN Snapshot(stateFile.doc)
                                  ELSE NoSnapshot
                   /\ settled' = TRUE
                   /\ UNCHANGED diskBefore
              ELSE UNCHANGED ghostVars
           /\ hpc' = [hpc EXCEPT ![p] = AfterWrite(ok)]
    /\ UNCHANGED <<now, hkind, hprior, hstate, hout, herr, hprobe, pwait,
                   memfb, telVars, shodhVars>>

\* the health check, the warning on stderr and the envelope on stdout
PcsReportBody(p, env, svc) ==
    /\ LET healthy == isMemoryServiceHealthy(env, svc)
           aa == hstate[p].active_agents
           body == [NoBody EXCEPT !.sprint = hstate[p].sprint.data,
                                  !.agents = AgentIdsSummary(aa),
                                  !.shown = AgentIdsSummary(aa).keys,
                                  !.warning = MemoryWarning(healthy, "pre-compact-save")]
       IN  /\ herr' = [herr EXCEPT ![p] = IF healthy THEN 0 ELSE 1]
           /\ hprobe' = [hprobe EXCEPT ![p] = HealthCall(env, svc)]
           /\ UNCHANGED <<pwait, memfb>>
           /\ hout' = [hout EXCEPT ![p] =
                  WriteStdout(hout[p], Envelope("PreCompact", "", FALSE, body))]
    /\ hpc' = [hpc EXCEPT ![p] = "exited"]
    /\ UNCHANGED <<stateFile, sprintFile, now, hkind, hprior, hstate, hwrote,
                   ghostVars, telVars, shodhVars>>

PcsReport(p, env, svc) ==
    /\ hpc[p] = "report"
    /\ PcsReportBody(p, env, svc)

\* the process is gone and the host has read what it wrote
HostCollect(p) ==
    /\ hpc[p] = "exited"
    /\ hpc' = [hpc EXCEPT ![p] = "idle"]
    /\ hkind' = [hkind EXCEPT ![p] = None]
    /\ hprior' = [hprior EXCEPT ![p] = FileUnread]
    /\ hstate' = [hstate EXCEPT ![p] = EmptyDoc]
    /\ hwrote' = [hwrote EXCEPT ![p] = FALSE]
    /\ hout' = [hout EXCEPT ![p] = <<>>]
    /\ herr' = [herr EXCEPT ![p] = 0]
    /\ hprobe' = [hprobe EXCEPT ![p] = NoProbe]
    /\ diskBefore' = IF \A q \in HookProcs \ {p} : hpc[q] = "idle"
                      THEN stateFile ELSE diskBefore
    /\ UNCHANGED <<pwait, memfb>>
    /\ UNCHANGED <<stateFile, sprintFile, now, settled, prevSnap, telVars,
                   shodhVars>>

\* the length of the text JSON.stringify(value, null, 2) gives a member
\* of the snapshot: a string with its quotes, a number or boolean as
\* written, {} and [] as two characters, the two agents and the two
\* decisions one entry to a line
PrettyLength(j) ==
    CASE j = TwoAgents -> 65
      [] j = TwoDecisions -> 47
      [] j.t = "string" -> j.keys + 2
      [] j.t \in {"object", "array"} -> 2
      [] j.t = "undefined" -> 0
      [] j = JSeven -> 1
      [] j = JZero -> 1
      [] j = JTrue -> 4
      [] j = JFalse -> 5
      [] j.t = "null" -> 4

\* the length of what differs from one snapshot to the next of the same
\* sprint document: last_compaction has 24 characters at every instant
\* and the member names are the same
TextLength(doc) ==
    PrettyLength(doc.last_compaction) + PrettyLength(doc.active_agents)
        + PrettyLength(doc.pending_decisions) + PrettyLength(doc.notes)
FileLength(f) == IF f.top \in {"object", "torn"} THEN TextLength(f.doc) ELSE 0

\* write(fd, text) at offset 0 of a file another process wrote since this
\* one opened it: the text replaces the start of the file and what lies
\* beyond its length stays
Overwrite(f, doc) ==
    IF FileLength(f) > TextLength(doc) THEN FileTorn(f.doc) ELSE FileObject(doc)

\* fs.writeFileSync(statePath, ...) as the steps the operating system sees:
\* open(statePath, O_WRONLY | O_CREAT | O_TRUNC), ...
PcsOpen(p, fsOk) ==
    /\ hpc[p] = "write"
    /\ LET ok == fsOk /\ stateFile.kind # "dir"
       IN  /\ stateFile' = IF ok THEN FileEmpty ELSE stateFile
           /\ hwrote' = [hwrote EXCEPT ![p] = FALSE]
           /\ hpc' = [hpc EXCEPT ![p] = IF ok THEN "writing" ELSE AfterWrite(ok)]
    /\ UNCHANGED <<sprintFile, now, hkind, hprior, hstate, hout, herr, hprobe,
                   pwait, memfb, ghostVars, telVars, shodhVars>>

\* ... write(fd, text), close(fd)
PcsWriteText(p) ==
    /\ hpc[p] = "writing"
    /\ stateFile' = Overwrite(stateFile, hstate[p])
    /\ hwrote' = [hwrote EXCEPT ![p] = TRUE]
    /\ hpc' = [hpc EXCEPT ![p] = AfterWrite(TRUE)]
    /\ UNCHANGED <<sprintFile, now, hkind, hprior, hstate, hout, herr, hprobe,
                   pwait, memfb, ghostVars, telVars, shodhVars>>

\* subagent-stop-memory main past the project directory: the agent name,
\* the next step, the phases, the health check and the envelope
SsmOutput(p, input, env, svc) ==
    LET agentName == AgentNameOf(input)
        found == PhaseTable[ReadSprint(sprintFile)]
        healthy == isMemoryServiceHealthy(env, svc)
        body == [NoBody EXCEPT !.agent = agentName,
                               !.nextStep = NextStep(agentName),
                               !.phase = found.phase,
                               !.next = found.next,
                               !.warning = MemoryWarning(healthy, "subagent-stop-memory")]
    IN  /\ herr' = [herr EXCEPT ![p] = IF healthy THEN 0 ELSE 1]
        /\ hprobe' = [hprobe EXCEPT ![p] = HealthCall(env, svc)]
        /\ UNCHANGED <<pwait, memfb>>
        /\ hout' = [hout EXCEPT ![p] =
               WriteStdout(<<>>, Envelope("SubagentStop", "", FALSE, body))]
        /\ hpc' = [hpc EXCEPT ![p] = "exited"]

\* subagent-stop-memory main
SsmRun(p, input, dir, env, svc) ==
    /\ Started(p, "ssm")
    /\ IF dir = "cwdGone"
       THEN Caught(p, "ssm")
       ELSE SsmOutput(p, input, env, svc)
    /\ UNCHANGED <<stateFile, sprintFile, now, hprior, hstate, hwrote,
                   ghostVars, telVars, shodhVars>>

(***************************************************************************)
(* The wait inside isMemoryServiceHealthy: execSync blocks the hook until  *)
(* the probe subprocess ends or is killed. Time is counted in steps of     *)
(* 500 ms.                                                                 *)
(***************************************************************************)
\* HEALTH_TIMEOUT_MS = 2000: the 'timeout' event of the request
HttpTimeoutTicks == 4
\* timeout: HEALTH_TIMEOUT_MS + 500: execSync kills the subprocess
ExecTimeoutTicks == 5

\* the subprocess can still be running after w steps: one that cannot be
\* spawned never runs, a response or an error comes before the request
\* times out, silence lasts until the request times out, a socket kept busy
\* lasts until execSync kills the subprocess
ProbeMayRun(svc, w) ==
    CASE svc = "spawnFails" -> FALSE
      [] svc = "silent" -> w < HttpTimeoutTicks
      [] svc = "trickling" -> w < ExecTimeoutTicks
      [] OTHER -> w + 1 < HttpTimeoutTicks

\* execSync comes back after w steps: the subprocess has exited (on the
\* response, on 'error', on 'timeout') or has been killed
NoExecTimeout(svc, w) ==
    CASE svc = "silent" -> w >= HttpTimeoutTicks
      [] svc = "trickling" -> FALSE
      [] OTHER -> TRUE
ProbeEnded(svc, w) ==
    CASE svc = "silent" -> w >= HttpTimeoutTicks
      [] svc = "trickling" -> w >= ExecTimeoutTicks
      [] OTHER -> TRUE

\* the call is entered with the override and the service as they are
Probing(p, env, svc) ==
    /\ hpc' = [hpc EXCEPT ![p] = "probing"]
    /\ hprobe' = [hprobe EXCEPT ![p] = [NoProbe EXCEPT !.env = env, !.svc = svc]]
    /\ pwait' = [pwait EXCEPT ![p] = 0]
    /\ UNCHANGED memfb

\* pre-compact-save reaches its health check
PcsProbe(p, env, svc) ==
    /\ hkind[p] = "pcs"
    /\ hpc[p] = "report"
    /\ Probing(p, env, svc)
    /\ UNCHANGED <<stateFile, sprintFile, now, hkind, hprior, hstate, hwrote,
                   hout, herr, ghostVars, telVars, shodhVars>>

\* subagent-stop-memory runs up to its health check
SsmProbe(p, dir, env, svc) ==
    /\ Started(p, "ssm")
    /\ IF dir = "cwdGone"
       THEN Caught(p, "ssm")
       ELSE /\ Probing(p, env, svc)
            /\ UNCHANGED <<hout, herr>>
    /\ UNCHANGED <<stateFile, sprintFile, now, hprior, hstate, hwrote,
                   ghostVars, telVars, shodhVars>>

\* 500 ms pass while execSync waits
ProbeTick(p) ==
    /\ hpc[p] = "probing"
    /\ ProbeSpawned(hprobe[p].env)
    /\ ProbeMayRun(hprobe[p].svc, pwait[p])
    /\ pwait' = [pwait EXCEPT ![p] = pwait[p] + 1]
    /\ UNCHANGED <<stateFile, sprintFile, now, hpc, hkind, hprior, hstate,
                   hwrote, hout, herr, hprobe, memfb, ghostVars, telVars, shodhVars>>

\* isMemoryServiceHealthy returns to the hook
ProbeReturned(p) ==
    /\ hpc[p] = "probing"
    /\ ~ProbeSpawned(hprobe[p].env) \/ ProbeEnded(hprobe[p].svc, pwait[p])

\* pre-compact-save from the return of its health check to its exit
PcsFinish(p) ==
    /\ hkind[p] = "pcs"
    /\ ProbeReturned(p)
    /\ PcsReportBody(p, hprobe[p].env, hprobe[p].svc)

\* subagent-stop-memory from the return of its health check to its exit
\* (what it read from stdin shows only in the envelope)
SsmFinish(p, input) ==
    /\ hkind[p] = "ssm"
    /\ ProbeReturned(p)
    /\ SsmOutput(p, input, hprobe[p].env, hprobe[p].svc)
    /\ UNCHANGED <<stateFile, sprintFile, now, hkind, hprior, hstate, hwrote,
                   ghostVars, telVars, shodhVars>>

\* JSON.parse(fs.readFileSync(statePath)).active_agents in its own try:
\* nothing when the read or the parse raises or the value has no member
UpsAgents(f) ==
    IF f.kind = "text" /\ f.top = "object" THEN f.doc.active_agents ELSE Undefined

UpsSliceLimit == 5

\* user-prompt-submit-rufus main
UpsRun(p, dir) ==
    /\ Started(p, "ups")
    /\ IF dir = "cwdGone" \/ sprintFile.kind = "dir"
       THEN Caught(p, "ups")
       ELSE LET raw == sprintFile.text
                aa == UpsAgents(stateFile)
                listed == Truthy(aa) /\ aa.keys > 0
                body == [NoBody EXCEPT
                           !.sprint = IF sprintFile.kind = "text"
                                      THEN UpsFieldsTable[raw] ELSE <<>>,
                           !.stories = IF sprintFile.kind = "text"
                                       THEN StoriesTable[raw] ELSE NoStories,
                           !.agents = IF listed THEN aa ELSE NoBody.agents,
                           !.shown = IF listed THEN Min(aa.keys, UpsSliceLimit) ELSE 0]
            IN  /\ hout' = [hout EXCEPT ![p] =
                       WriteStdout(<<>>, Envelope("", "continue", FALSE, body))]
                /\ herr' = [herr EXCEPT ![p] = 0]
                /\ hprobe' = [hprobe EXCEPT ![p] = NoProbe]
                /\ UNCHANGED <<pwait, memfb>>
                /\ hpc' = [hpc EXCEPT ![p] = "exited"]
    /\ UNCHANGED <<stateFile, sprintFile, now, hprior, hstate, hwrote,
                   ghostVars, telVars, shodhVars>>

\* between hook runs the orchestrator and its tools rewrite the files
EditState(f) ==
    /\ Quiescent
    /\ f # stateFile
    /\ stateFile' = f
    /\ diskBefore' = f
    /\ settled' = FALSE
    /\ prevSnap' = NoSnapshot
    /\ UNCHANGED <<sprintFile, now, hpc, hkind, hprior, hstate, hwrote, hout,
                   herr, hprobe, pwait,
                   memfb, telVars, shodhVars>>

EditSprint(s) ==
    /\ Quiescent
    /\ s # sprintFile
    /\ sprintFile' = s
    /\ settled' = FALSE
    /\ prevSnap' = NoSnapshot
    /\ UNCHANGED diskBefore
    /\ UNCHANGED <<stateFile, now, hpc, hkind, hprior, hstate, hwrote, hout,
                   herr, hprobe, pwait,
                   memfb, telVars, shodhVars>>

\* time passes
Tick ==
    /\ now < MaxClock
    /\ now' = now + 1
    /\ UNCHANGED <<stateFile, sprintFile, hpc, hkind, hprior, hstate, hwrote,
                   hout, herr, hprobe, pwait,
                   memfb, ghostVars, telVars, shodhVars>>

(***************************************************************************)
(* ensure-shodh-server.js                                                  *)
(***************************************************************************)
\* crypto.randomBytes(32).toString("hex"): any of the keys
RandomKeys == {"key-a", "key-b"}

\* shodh-config.json: absent, or a text that is not JSON, the JSON null, or
\* a JSON object; a member that is missing or falsy is "" (0 for the port);
\* pretty tells the text is JSON.stringify(value, null, 2) + "\n"
ConfigFile(kind, top, api_key, host, port, user_id, pretty) ==
    [kind |-> kind, top |-> top, api_key |-> api_key, host |-> host,
     port |-> port, user_id |-> user_id, pretty |-> pretty]
ConfigAbsent == ConfigFile("absent", None, "", "", 0, "", FALSE)
ConfigFixtures ==
    { ConfigAbsent,
      ConfigFile("text", "unparseable", "", "", 0, "", FALSE),
      ConfigFile("text", "null", "", "", 0, "", FALSE),
      ConfigFile("text", "object", "", "", 0, "", FALSE),
      ConfigFile("text", "object", "", "10.0.0.5", 4040, "cloud", TRUE),
      ConfigFile("text", "object", "key-user", "10.0.0.5", 4040, "cloud", FALSE) }

\* the config object of main
Config(api_key, host, port, user_id) ==
    [api_key |-> api_key, host |-> host, port |-> port, user_id |-> user_id]
NoConfig == Config("", "", 0, "")
DefaultHost == "127.0.0.1"
DefaultPortOfShodh == 3030
DefaultUser == "rufus"

\* loadOrCreateConfig(): the config, the file afterwards, and whether it
\* raised (JSON.parse of a text that is not JSON, a member read of null,
\* mkdir or write refused); the members filled in for an existing file stay
\* in memory, the file is written only when there was none
loadOrCreateConfig(file, key, writable) ==
    IF file.kind = "text"
    THEN IF file.top # "object"
         THEN [threw |-> TRUE, config |-> NoConfig, file |-> file]
         ELSE LET cfg == Config(IF file.api_key = "" THEN key ELSE file.api_key,
                                IF file.host = "" THEN DefaultHost ELSE file.host,
                                IF file.port = 0 THEN DefaultPortOfShodh ELSE file.port,
                                IF file.user_id = "" THEN DefaultUser ELSE file.user_id)
              IN  [threw |-> FALSE, config |-> cfg, file |-> file]
    ELSE IF ~writable
         THEN [threw |-> TRUE, config |-> NoConfig, file |-> file]
         ELSE [threw |-> FALSE,
               config |-> Config(key, DefaultHost, DefaultPortOfShodh, DefaultUser),
               file |-> ConfigFile("text", "object", key, DefaultHost,
                                   DefaultPortOfShodh, DefaultUser, TRUE)]

\* the memory member of .mcp.json: SHODH_API_KEY, SHODH_API_URL (host and
\* port) and SHODH_USER_ID; the other members of the entry are literals
Entry(present, api_key, host, port, user_id) ==
    [present |-> present, api_key |-> api_key, host |-> host, port |-> port,
     user_id |-> user_id]
NoEntry == Entry(FALSE, "", "", 0, "")
memoryEntry(config) ==
    Entry(TRUE, config.api_key, config.host, config.port,
          IF config.user_id = "" THEN DefaultUser ELSE config.user_id)

\* .mcp.json: absent, or a text that is not JSON, the JSON null, a JSON
\* array, or a JSON object with or without a memory member and with or
\* without other servers
McpFile(kind, top, memory, others, pretty) ==
    [kind |-> kind, top |-> top, memory |-> memory, others |-> others,
     pretty |-> pretty]
McpAbsent == McpFile("absent", None, NoEntry, FALSE, FALSE)
McpFixtures ==
    { McpAbsent,
      McpFile("text", "unparseable", NoEntry, FALSE, FALSE),
      McpFile("text", "null", NoEntry, FALSE, FALSE),
      McpFile("text", "array", NoEntry, FALSE, FALSE),
      McpFile("text", "object", NoEntry, TRUE, FALSE),
      McpFile("text", "object", Entry(TRUE, "key-old", DefaultHost, DefaultPortOfShodh, DefaultUser),
              TRUE, TRUE),
      McpFile("text", "object", Entry(TRUE, "key-user", "10.0.0.5", 4040, "cloud"),
              FALSE, FALSE) }

\* syncMcpConfig(config): the file afterwards and whether it raised (a
\* member read of null, the write refused); a memory member set on an array
\* is not written by JSON.stringify
syncMcpConfig(config, file, writable) ==
    LET parsed  == file.kind = "text" /\ file.top # "unparseable"
        desired == memoryEntry(config)
        current == IF parsed THEN file.memory ELSE NoEntry
        written == McpFile("text",
                           IF parsed THEN file.top ELSE "object",
                           IF parsed /\ file.top = "array" THEN NoEntry ELSE desired,
                           parsed /\ file.others, TRUE)
    IN  IF parsed /\ file.top = "null" THEN [threw |-> TRUE, file |-> file]
        ELSE IF current = desired THEN [threw |-> FALSE, file |-> file]
        ELSE IF ~writable THEN [threw |-> TRUE, file |-> file]
        ELSE [threw |-> FALSE, file |-> written]

\* what GET /health meets: a JSON body with a status member, a body that is
\* not such JSON, a connection error, or no answer within HEALTH_TIMEOUT_MS
Response(kind, status, code) == [kind |-> kind, status |-> status, code |-> code]
HealthResponses ==
    { Response("json", "healthy", 200), Response("json", "degraded", 200),
      Response("json", "healthy", 503), Response("text", "", 200),
      Response("text", "", 503), Response("error", "", 0),
      Response("timeout", "", 0) }
checkHealth(r) ==
    CASE r.kind = "json" -> r.status = "healthy"
      [] r.kind = "text" -> r.code = 200
      [] OTHER -> FALSE

\* what POST /api/v1/memory/search meets
AuthResponses ==
    { Response("text", "", 200), Response("text", "", 401),
      Response("text", "", 403), Response("text", "", 500),
      Response("error", "", 0), Response("timeout", "", 0) }
checkAuth(r) ==
    CASE r.kind \in {"json", "text"} -> r.code # 401
      [] OTHER -> FALSE

\* the statusMessage of output(): the four texts of main
StatusError == "shodh-memory hook error"
StatusNotResponding == "shodh-memory server not responding"
StatusKeyRejected == "shodh-memory server is running but API key rejected (401)"
StatusRunning == "shodh-memory server running"

NoChecks == [health |-> None, auth |-> None]
Outcome(ok) == IF ok THEN "ok" ELSE "failed"

\* main, steps 1 and 2, and the catch of main()
ShodhStart(key) ==
    /\ spc = "idle"
    /\ LET c == loadOrCreateConfig(configFile, key, fsWritable)
           m == syncMcpConfig(c.config, mcpFile, fsWritable)
       IN  /\ configFile' = c.file
           /\ mcpFile' = IF c.threw THEN mcpFile ELSE m.file
           /\ IF c.threw \/ m.threw
              THEN /\ sout' = <<StatusError>>
                   /\ sconfig' = NoConfig
                   /\ spc' = "exited"
              ELSE /\ sout' = <<>>
                   /\ sconfig' = c.config
                   /\ spc' = "health"
    /\ schecks' = NoChecks
    /\ leftByRun' = TRUE
    /\ UNCHANGED <<fsWritable, telVars, sesVars>>

\* where main goes after the health check
AuthAnyway(healthy) == "auth"
AfterHealth(healthy) == IF healthy THEN "auth" ELSE "exited"

\* main, step 3
ShodhHealth(r) ==
    /\ spc = "health"
    /\ LET healthy == checkHealth(r)
       IN  /\ schecks' = [schecks EXCEPT !.health = Outcome(healthy)]
           /\ sout' = IF healthy THEN sout ELSE Append(sout, StatusNotResponding)
           /\ spc' = AfterHealth(healthy)
    /\ UNCHANGED <<configFile, mcpFile, fsWritable, sconfig, leftByRun,
                   telVars, sesVars>>

\* main, step 4
ShodhAuth(r) ==
    /\ spc = "auth"
    /\ LET authOk == checkAuth(r)
       IN  /\ schecks' = [schecks EXCEPT !.auth = Outcome(authOk)]
           /\ sout' = Append(sout, IF authOk THEN StatusRunning
                                   ELSE StatusKeyRejected)
    /\ spc' = "exited"
    /\ UNCHANGED <<configFile, mcpFile, fsWritable, sconfig, leftByRun,
                   telVars, sesVars>>

\* the process is gone and the host has read what it wrote
ShodhCollect ==
    /\ spc = "exited"
    /\ spc' = "idle"
    /\ sconfig' = NoConfig
    /\ schecks' = NoChecks
    /\ sout' = <<>>
    /\ UNCHANGED <<configFile, mcpFile, fsWritable, leftByRun, telVars, sesVars>>

\* the user edits or removes a file, or the filesystem changes, between two
\* sessions
EditConfig(f) ==
    /\ spc = "idle"
    /\ f # configFile
    /\ configFile' = f
    /\ leftByRun' = FALSE
    /\ UNCHANGED <<mcpFile, fsWritable, spc, sconfig, schecks, sout,
                   telVars, sesVars>>
EditMcp(f) ==
    /\ spc = "idle"
    /\ f # mcpFile
    /\ mcpFile' = f
    /\ leftByRun' = FALSE
    /\ UNCHANGED <<configFile, fsWritable, spc, sconfig, schecks, sout,
                   telVars, sesVars>>
Remount ==
    /\ spc = "idle"
    /\ fsWritable' = ~fsWritable
    /\ leftByRun' = FALSE
    /\ UNCHANGED <<configFile, mcpFile, spc, sconfig, schecks, sout,
                   telVars, sesVars>>

ShodhInit ==
    /\ configFile = ConfigAbsent
    /\ mcpFile = McpAbsent
    /\ fsWritable = TRUE
    /\ spc = "idle"
    /\ sconfig = NoConfig
    /\ schecks = NoChecks
    /\ sout = <<>>
    /\ leftByRun = FALSE

SesInit ==
    /\ stateFile \in {FileAbsent}
    /\ sprintFile \in {SprintAbsent}
    /\ now = 0
    /\ hpc = [p \in HookProcs |-> "idle"]
    /\ hkind = [p \in HookProcs |-> None]
    /\ hprior = [p \in HookProcs |-> FileUnread]
    /\ hstate = [p \in HookProcs |-> EmptyDoc]
    /\ hwrote = [p \in HookProcs |-> FALSE]
    /\ hout = [p \in HookProcs |-> <<>>]
    /\ herr = [p \in HookProcs |-> 0]
    /\ hprobe = [p \in HookProcs |-> NoProbe]
    /\ pwait = [p \in HookProcs |-> 0]
    /\ memfb = NotLoaded
    /\ settled = FALSE
    /\ diskBefore = FileAbsent
    /\ prevSnap = NoSnapshot

Init == TelInit /\ SesInit /\ ShodhInit

\* the event logger called directly, under every state of its directory
LogNext ==
    \/ \E p \in Procs, a \in DirectArgs, fsOk \in BOOLEAN : LogEventCall(p, a, fsOk)
    \/ \E p \in Procs : ProcessExit(p)
    \/ RemoveTelemetryDir

SpecLog == Init /\ [][LogNext]_vars

\* wrapped invocations running concurrently, in one process or in several
WrapNext ==
    \/ \E i \in Invs, p \in Procs, fsOk \in BOOLEAN : WrapCall(i, p, fsOk)
    \/ \E i \in Invs, el \in Elapsed, fsOk \in BOOLEAN :
          \E b \in BodyOutcomes(i) : WrapBodyDone(i, b, el, fsOk)
    \/ \E p \in Procs : ProcessExit(p)

SpecWrap == Init /\ [][WrapNext]_vars

\* wrapped invocations on a filesystem that accepts every write, under a
\* wall clock that may be set back
ClockNext ==
    \/ \E i \in Invs, p \in Procs : WrapCall(i, p, TRUE)
    \/ \E i \in Invs, el \in ClockElapsed :
          \E b \in BodyOutcomes(i) : WrapBodyDone(i, b, el, TRUE)

SpecClock == Init /\ [][ClockNext]_vars

\* require("./lib/memory-fallback") in a fresh process: the port is read
\* from the environment once
LoadModule(e) ==
    /\ ~memfb.loaded
    /\ memfb' = [NotLoaded EXCEPT !.loaded = TRUE, !.env = e,
                                   !.port = MCP_HTTP_PORT(e)]
    /\ UNCHANGED <<stateFile, sprintFile, now, hpc, hkind, hprior, hstate,
                   hwrote, hout, herr, hprobe, pwait, ghostVars, telVars, shodhVars>>

\* the states of the service a probe of this port can meet: http.get
\* rejects a port outside 0..65535 before any connection
CanMeet(port, svc) ==
    IF PortValid(port) THEN svc # "invalidPort"
    ELSE svc \in {"invalidPort", "spawnFails"}

\* a call of isMemoryServiceHealthy in the loaded module
CallHealthy(p, env, svc) ==
    /\ memfb.loaded
    /\ CanMeet(memfb.port, svc)
    /\ hprobe' = [hprobe EXCEPT ![p] = HealthCall(env, svc)]
    /\ memfb' = [memfb EXCEPT !.command = IF ProbeSpawned(env)
                                           THEN ProbeCommand(memfb.port)
                                           ELSE memfb.command]
    /\ UNCHANGED <<stateFile, sprintFile, now, hpc, hkind, hprior, hstate,
                   hwrote, hout, herr, pwait, ghostVars, telVars, shodhVars>>

\* a call of memoryFallbackMessage in the loaded module
CallMessage(v) ==
    /\ memfb.loaded
    /\ memfb' = [memfb EXCEPT !.message = MessageCall(v)]
    /\ UNCHANGED <<stateFile, sprintFile, now, hpc, hkind, hprior, hstate,
                   hwrote, hout, herr, hprobe, pwait, ghostVars, telVars, shodhVars>>

\* the process that loaded the module exits
UnloadModule ==
    /\ memfb.loaded
    /\ memfb' = NotLoaded
    /\ hprobe' = [p \in HookProcs |-> NoProbe]
    /\ UNCHANGED <<stateFile, sprintFile, now, hpc, hkind, hprior, hstate,
                   hwrote, hout, herr, pwait, ghostVars, telVars, shodhVars>>

\* the module loaded under every value of MCP_HTTP_PORT and its health check
\* called
PortNext ==
    \/ \E e \in PortEnvs : LoadModule(e)
    \/ \E p \in SeqProcs, env \in HealthEnv, svc \in Services : CallHealthy(p, env, svc)
    \/ \E v \in HookValues : CallMessage(v)
    \/ UnloadModule

SpecPort == Init /\ [][PortNext]_vars

\* the session-start hook run again and again, the files and the
\* filesystem changing between runs
ShodhNext ==
    \/ \E key \in RandomKeys : ShodhStart(key)
    \/ \E r \in HealthResponses : ShodhHealth(r)
    \/ \E r \in AuthResponses : ShodhAuth(r)
    \/ ShodhCollect
    \/ \E f \in ConfigFixtures : EditConfig(f)
    \/ \E f \in McpFixtures : EditMcp(f)
    \/ Remount

SpecShodh == Init /\ [][ShodhNext]_vars

\* the hooks of one session with the wait of the health check shown: each
\* step of a started hook is taken sooner or later, and time passes
LiveNext ==
    \/ \E p \in SeqProcs, dir \in ProjectDirs : PcsStart(p, dir)
    \/ \E p \in SeqProcs, fsOk \in BOOLEAN : PcsWrite(p, fsOk)
    \/ \E p \in SeqProcs, env \in HealthEnv, svc \in Services : PcsProbe(p, env, svc)
    \/ \E p \in SeqProcs, dir \in ProjectDirs, env \in HealthEnv, svc \in Services :
          SsmProbe(p, dir, env, svc)
    \/ \E p \in SeqProcs : ProbeTick(p)
    \/ \E p \in SeqProcs : PcsFinish(p)
    \/ \E p \in SeqProcs, input \in StdinInputs : SsmFinish(p, input)
    \/ \E p \in SeqProcs, dir \in ProjectDirs : UpsRun(p, dir)
    \/ \E p \in SeqProcs : HostCollect(p)

LiveFairness ==
    \A p \in SeqProcs :
        /\ WF_vars(\E fsOk \in BOOLEAN : PcsWrite(p, fsOk))
        /\ WF_vars(\E env \in HealthEnv, svc \in Services : PcsProbe(p, env, svc))
        /\ WF_vars(ProbeTick(p))
        /\ WF_vars(PcsFinish(p))
        /\ WF_vars(\E input \in StdinInputs : SsmFinish(p, input))

SpecLive == Init /\ [][LiveNext]_vars /\ LiveFairness

\* several pre-compact-save processes on one project directory, each an
\* operating-system process of its own: their steps interleave freely
ConcNext ==
    \/ \E p \in HookProcs, dir \in ProjectDirs : PcsStart(p, dir)
    \/ \E p \in HookProcs, fsOk \in BOOLEAN : PcsOpen(p, fsOk)
    \/ \E p \in HookProcs : PcsWriteText(p)
    \/ \E p \in HookProcs, env \in HealthEnv, svc \in Services : PcsReport(p, env, svc)
    \/ \E p \in HookProcs : HostCollect(p)
    \/ \E f \in StateFixtures : EditState(f)

SpecConc == Init /\ [][ConcNext]_vars

\* the runs of subagent-stop-memory the routing test makes: one process for
\* each agent of routingCases, over the sprint documents of the fixtures
RouteNext ==
    \/ \E p \in SeqProcs, input \in RoutedInputs, dir \in ProjectDirs,
          env \in HealthEnv, svc \in Services : SsmRun(p, input, dir, env, svc)
    \/ \E p \in SeqProcs : HostCollect(p)
    \/ \E s \in SprintFixtures : EditSprint(s)

SpecRoute == Init /\ [][RouteNext]_vars

\* user-prompt-submit-rufus over sprint documents with and without stories
StoryNext ==
    \/ \E p \in SeqProcs, dir \in ProjectDirs : UpsRun(p, dir)
    \/ \E p \in SeqProcs : HostCollect(p)
    \/ \E s \in SprintFixtures \cup StoryFixtures : EditSprint(s)
    \/ \E f \in StateFixtures : EditState(f)

SpecStory == Init /\ [][StoryNext]_vars

\* the hooks of one session, run one at a time by the host
Next ==
    \/ \E p \in SeqProcs, dir \in ProjectDirs : PcsStart(p, dir)
    \/ \E p \in SeqProcs, fsOk \in BOOLEAN : PcsWrite(p, fsOk)
    \/ \E p \in SeqProcs, env \in HealthEnv, svc \in Services : PcsReport(p, env, svc)
    \/ \E p \in SeqProcs, input \in StdinInputs, dir \in ProjectDirs,
          env \in HealthEnv, svc \in Services : SsmRun(p, input, dir, env, svc)
    \/ \E p \in SeqProcs, dir \in ProjectDirs : UpsRun(p, dir)
    \/ \E p \in SeqProcs : HostCollect(p)
    \/ \E f \in StateFixtures : EditState(f)
    \/ \E s \in SprintFixtures : EditSprint(s)
    \/ Tick

Spec == Init /\ [][Next]_vars

(***************************************************************************)
(* Properties.                                                             *)
(***************************************************************************)
IsPrefix(s, t) == Len(s) <= Len(t) /\ SubSeq(t, 1, Len(s)) = s
Events(recs) == [k \in 1..Len(recs) |-> recs[k].event]
FromInv(i, chunk) == chunk.inv = i
\* the records of invocation i in the log, in log order
RecordsOf(i) ==
    LET idx == {k \in 1..Len(log) : FromInv(i, log[k])}
        Nth(n) == CHOOSE k \in idx : Cardinality({h \in idx : h < k}) = n - 1
    IN  [n \in 1..Cardinality(idx) |-> log[Nth(n)]]
Settled(i) == wpc[i] \in {"returned", "raised"}
AllAppended(i) == \A k \in 1..Len(emitted[i]) : emitted[i][k].appended

PreservedFields == {"active_agents", "pending_decisions", "notes"}
DefaultOf(f) ==
    CASE f = "active_agents" -> EmptyObject
      [] f = "pending_decisions" -> EmptyArray
      [] f = "notes" -> EmptyString
HasSnapshot(f) == f.kind = "text" /\ f.top = "object"
\* process p has just written its snapshot over one that was on disk when
\* it started
JustReplaced(p) ==
    /\ hkind[p] = "pcs" /\ hpc[p] = "report" /\ hwrote[p]
    /\ HasSnapshot(hprior[p])

\* C1 as stated: every snapshot written carries active_agents,
\* pending_decisions and notes equal to those of the snapshot that was on
\* disk when the invocation started.
C1_Original ==
    \A p \in HookProcs : JustReplaced(p) =>
        \A f \in PreservedFields : stateFile.doc[f] = hprior[p].doc[f]

\* C1 amended: every snapshot written carries, for each of active_agents,
\* pending_decisions and notes, the value of the snapshot that was on disk
\* when the invocation started, except that a field missing or falsy there
\* (null, false, 0, "") is written as its default ({}, [], "").
C1_PreservedOrDefault ==
    \A p \in HookProcs : JustReplaced(p) =>
        \A f \in PreservedFields :
            stateFile.doc[f] = IF Truthy(hprior[p].doc[f]) THEN hprior[p].doc[f]
                               ELSE DefaultOf(f)

C1_Witness ==
    \E p \in HookProcs :
        /\ JustReplaced(p)
        /\ hprior[p].doc.active_agents = TwoAgents
        /\ hprior[p].doc.notes = Undefined
        /\ stateFile.doc.active_agents = TwoAgents
        /\ stateFile.doc.notes = EmptyString

\* C2: two runs of pre-compact-save in succession, the sprint document and
\* the state file untouched in between, write snapshots whose sprint block,
\* active_agents, pending_decisions and notes are identical; nothing but
\* last_compaction differs.
C2_Idempotent ==
    prevSnap.valid =>
        /\ HasSnapshot(stateFile)
        /\ \A f \in DOMAIN stateFile.doc \ {"last_compaction"} :
              stateFile.doc[f] = prevSnap.doc[f]

C2_Witness ==
    /\ prevSnap.valid
    /\ prevSnap.doc.last_compaction # stateFile.doc.last_compaction
    /\ prevSnap.doc.active_agents = TwoAgents
    /\ prevSnap.doc.sprint = SprintObject(SprintDataTable[DocFull])
    /\ stateFile.doc.sprint = SprintObject(SprintDataTable[DocFull])

\* C3: every execution of pre-compact-save, subagent-stop-memory and
\* user-prompt-submit-rufus has written exactly one JSON object to stdout
\* when it exits, the path through the outermost catch included: never
\* none, never two.
C3_OneObject ==
    \A p \in HookProcs :
        /\ Len(hout[p]) <= 1
        /\ hpc[p] = "exited" => Len(hout[p]) = 1

C3_Witness ==
    \E p \in HookProcs :
        /\ hpc[p] = "exited" /\ hkind[p] = "ups"
        /\ sprintFile.kind = "dir"
        /\ Len(hout[p]) = 1 /\ hout[p][1].fallback

\* C4: logEvent never raises to its caller, whatever its arguments (a
\* cyclic metadata object included) and whatever the state of the
\* filesystem.
C4_NeverRaises == ~logRaised

C4_Witness == ndirect >= 2 /\ nfailed >= 2 /\ Len(log) = 0 /\ ~logRaised

\* C5: the telemetry log is append-only: what it held before a step is a
\* prefix, unchanged, of what it holds after.
C5_AppendOnly == [][IsPrefix(log, log')]_vars

C5_Witness ==
    /\ Len(log) >= 3
    /\ \E k, l \in 1..Len(log) : wproc[log[k].inv] # wproc[log[l].inv]

\* C6 as stated: every line of the log is one complete record written by
\* one call, and N wrapped invocations that have all settled leave exactly
\* 2N records.
C6_Original ==
    /\ \A k \in 1..Len(log) : log[k].nl /\ log[k].call \in 1..ncalls
    /\ ((\A i \in Invs : Settled(i)) /\ nfailed = 0) => Len(log) = 2 * NumInvs

\* C7 as stated: whenever the wrapped body fails, whatever it raises, the
\* wrapper issues one hook_start and one hook_error carrying the failure's
\* message, and the caller observes the very same failure.
C7_Original ==
    \A i \in Invs : (Settled(i) /\ wbody[i].kind = "throw") =>
        /\ Events(emitted[i]) = <<"hook_start", "hook_error">>
        /\ emitted[i][2].error = Message(wbody[i].val)
        /\ wout[i] = [kind |-> "throw", val |-> wbody[i].val]

\* C8: when the wrapped body succeeds, it was passed the original
\* arguments, the wrapper issues one hook_start then one hook_end, and the
\* caller receives the body's result unchanged.
C8_SuccessTransparent ==
    \A i \in Invs : (Settled(i) /\ wbody[i].kind = "return") =>
        /\ wbodyArgs[i] = wargs[i]
        /\ wargs[i] = ArgsOf(i)
        /\ Events(emitted[i]) = <<"hook_start", "hook_end">>
        /\ wout[i] = [kind |-> "return", val |-> wbody[i].val]
        /\ AllAppended(i) => Events(RecordsOf(i)) = <<"hook_start", "hook_end">>

C8_Witness ==
    \E i \in Invs :
        /\ wpc[i] = "returned"
        /\ wout[i].val = Value("result", i)
        /\ Events(RecordsOf(i)) = <<"hook_start", "hook_end">>
        /\ \E j \in Invs : j # i /\ wpc[j] = "body"

\* C9 as stated: the records of each settled wrapped invocation are a
\* hook_start followed by exactly one of hook_end and hook_error.
C9_Original ==
    \A i \in Invs : (Settled(i) /\ AllAppended(i)) =>
        Events(RecordsOf(i)) \in {<<"hook_start", "hook_end">>,
                                  <<"hook_start", "hook_error">>}

\* C10 as stated: each logEvent call appends exactly one line, so the
\* calls made on a fresh log leave as many lines as there were calls.
C10_Original == Len(log) = ncalls

\* C10 amended: each logEvent call appends at most one newline-terminated
\* line, and exactly one unless its failure was swallowed (unwritable
\* directory or file, metadata that cannot be serialised): the calls made
\* on a fresh log leave one line per call that did not fail, in call order.
C10_OneLinePerSuccessfulCall ==
    /\ Len(log) = ncalls - nfailed
    /\ \A k \in 1..Len(log) : log[k].nl /\ log[k].call \in 1..ncalls
    /\ \A k, l \in 1..Len(log) : k < l => log[k].call < log[l].call

C10_Witness == ncalls = 3 /\ nfailed = 1 /\ Len(log) = 2

\* C11 as stated: every line appended by logEvent is valid JSON that
\* parses to an object containing timestamp, event, hook and duration_ms.
C11_Original ==
    \A k \in 1..Len(log) :
        log[k].text = "object" /\ BaseKeys \subseteq log[k].keys

\* C12 as stated: no hook_end or hook_error record in the log has a
\* negative duration_ms, whatever duration the caller supplies and
\* whatever the clock does during a wrapped invocation.
C12_Original ==
    \A k \in 1..Len(log) :
        log[k].event \in {"hook_end", "hook_error"} =>
            ~(log[k].duration_ms.kind = "number" /\ log[k].duration_ms.n < 0)

\* the six values a reader finds in each sprint document, in the order
\* workflow, status, current_phase, next_phase, quality_tier, scale
C13_FullValues ==
        <<<<"f", "e", "a", "t", "u", "r", "e">>,
          <<"a", "c", "t", "i", "v", "e">>,
          <<"h", "o", "j", "o">>,
          <<"r", "e", "n", "o">>,
          <<"S", "t", "a", "n", "d", "a", "r", "d">>,
          <<"3">>>>
C13_PartialValues ==
        <<<<"h", "o", "t", "f", "i", "x">>,
          <<"?">>,
          <<"r", "e", "n", "o">>,
          <<"?">>,
          <<"?">>,
          <<"?">>>>
C13_UnquotedValues ==
        <<<<"h", "o", "t", "f", "i", "x">>,
          <<"?">>,
          <<"h", "o", "j", "o">>,
          <<"r", "e", "n", "o">>,
          <<"?">>,
          <<"?">>>>
C13_ValuesOf(f) ==
    CASE f = SprintText(DocFull) -> C13_FullValues
      [] f = SprintText(DocPartial) -> C13_PartialValues
      [] f = SprintText(DocUnquoted) -> C13_UnquotedValues
      [] OTHER -> <<>>
C13_JustWrote(p) == hkind[p] = "pcs" /\ hpc[p] = "report" /\ hwrote[p]

\* C13: the sprint block of every snapshot pre-compact-save writes is the
\* six values of the sprint document read by that invocation, or the empty
\* object when the document is absent, unreadable or empty; nothing of the
\* prior snapshot's sprint block is in it.
C13_SprintFromDocumentOnly ==
    \A p \in HookProcs : C13_JustWrote(p) =>
        stateFile.doc.sprint = SprintObject(C13_ValuesOf(sprintFile))

\* a snapshot holding the full sprint block is replaced after the
\* document lost four of its fields
C13_Witness ==
    \E p \in HookProcs :
        /\ C13_JustWrote(p)
        /\ HasSnapshot(hprior[p])
        /\ hprior[p].doc.sprint = SprintObject(C13_FullValues)
        /\ sprintFile = SprintText(DocPartial)
        /\ stateFile.doc.sprint.data[2] = <<"?">>

\* C14 as stated: every top-level field of the prior snapshot other than
\* sprint and last_compaction, a field beyond active_agents,
\* pending_decisions and notes included, is unchanged in the snapshot
\* pre-compact-save writes (read here for the fields that hold a truthy
\* value, the ones x || d leaves alone).
C14_Original ==
    \A p \in HookProcs : JustReplaced(p) =>
        \A f \in DOMAIN hprior[p].doc \ {"sprint", "last_compaction"} :
            Truthy(hprior[p].doc[f]) => stateFile.doc[f] = hprior[p].doc[f]

\* C14 amended: of the prior snapshot's top-level fields only
\* active_agents, pending_decisions and notes are carried into the snapshot
\* written, each unchanged when truthy; any other field is dropped.
C14_OnlyNamedFieldsCarried ==
    \A p \in HookProcs : JustReplaced(p) =>
        /\ stateFile.doc.custom = Undefined
        /\ \A f \in PreservedFields :
               Truthy(hprior[p].doc[f]) => stateFile.doc[f] = hprior[p].doc[f]

\* a snapshot with a member beyond the five is replaced
C14_Witness ==
    \E p \in HookProcs :
        /\ JustReplaced(p)
        /\ hprior[p].doc.custom = OneCharString
        /\ hprior[p].doc.active_agents = TwoAgents
        /\ stateFile.doc.active_agents = TwoAgents
        /\ stateFile.doc.custom = Undefined

\* the state file cannot be loaded: there is none, it is a directory, or
\* its text (empty, binary, truncated) is not JSON
C15_Unloadable(f) == f.kind \in {"absent", "dir"} \/ f.top = "unparseable"

\* C15: loading the prior session state never raises: when the state file
\* is missing, a directory, or holds text that is not JSON, pre-compact-save
\* goes on with active_agents = {}, pending_decisions = [] and notes = ""
\* and ends with its PreCompact envelope, not with the one of its catch.
C15_LoadNeverRaises ==
    \A p \in HookProcs :
        (hkind[p] = "pcs" /\ C15_Unloadable(hprior[p])) =>
            /\ hpc[p] \in {"write", "report", "exited"}
            /\ hstate[p].active_agents = EmptyObject
            /\ hstate[p].pending_decisions = EmptyArray
            /\ hstate[p].notes = EmptyString
            /\ hpc[p] = "exited" =>
                   /\ Len(hout[p]) = 1
                   /\ hout[p][1].hookEventName = "PreCompact"
                   /\ ~hout[p][1].fallback

\* the state path held a directory and the invocation has ended
C15_Witness ==
    \E p \in HookProcs :
        /\ hkind[p] = "pcs" /\ hpc[p] = "exited"
        /\ hprior[p] = FileDir
        /\ hstate[p].active_agents = EmptyObject
        /\ Len(hout[p]) = 1 /\ ~hout[p][1].fallback

\* C16: when writing the snapshot fails (the directory cannot be written,
\* the state path is a directory) pre-compact-save goes on and ends with
\* its complete PreCompact envelope: the sprint summary and the agent ids
\* of the snapshot it built, not the envelope of its catch.
C16_WriteFailureSwallowed ==
    \A p \in HookProcs :
        (hkind[p] = "pcs" /\ hprior[p] # FileUnread /\ ~hwrote[p]) =>
            /\ hpc[p] \in {"write", "report", "exited"}
            /\ hpc[p] = "exited" =>
                   /\ Len(hout[p]) = 1
                   /\ hout[p][1].hookEventName = "PreCompact"
                   /\ ~hout[p][1].fallback
                   /\ hout[p][1].body.sprint = hstate[p].sprint.data
                   /\ hout[p][1].body.agents = AgentIdsSummary(hstate[p].active_agents)

\* the state path holds a directory, the write failed, the invocation ended
\* with the agent ids it could not save
C16_Witness ==
    \E p \in HookProcs :
        /\ hkind[p] = "pcs" /\ hpc[p] = "exited" /\ ~hwrote[p]
        /\ hprior[p] = FileDir /\ stateFile = FileDir
        /\ Len(hout[p]) = 1 /\ ~hout[p][1].fallback
        /\ hout[p][1].body.agents = NoneSaved

\* the next step of a pre-compact-save invocation in p, or the start of
\* one, can be taken
C17_CanGoOn(p) ==
    /\ hpc[p] \in {"idle", "write", "report", "exited"}
    /\ hpc[p] = "idle" => ENABLED PcsStart(p, "env")
    /\ hpc[p] = "write" => ENABLED (\E fsOk \in BOOLEAN : PcsWrite(p, fsOk))
    /\ hpc[p] = "report" =>
           ENABLED (\E env \in HealthEnv, svc \in Services : PcsReport(p, env, svc))
    /\ hpc[p] = "exited" => ENABLED HostCollect(p)

\* C17: the session lifecycle has no terminal state: in every reachable
\* state (no state file, a fresh or a stale snapshot, an unreadable or
\* unwritable state file) a pre-compact-save invocation can start or take
\* its next step up to its exit, and no step of a hook changes the state
\* file except the write attempt of pre-compact-save (the other writers of
\* the file are the orchestrator's tools, outside the hooks).
C17_NoTerminalState ==
    /\ [](\A p \in HookProcs : C17_CanGoOn(p))
    /\ [][stateFile' # stateFile =>
              \/ \E p \in HookProcs, fsOk \in BOOLEAN : PcsWrite(p, fsOk)
              \/ \E f \in StateFixtures : EditState(f)]_vars

\* an invocation has run to completion over the fresh snapshot that the
\* invocation before it wrote
C17_Witness ==
    \E p \in HookProcs :
        /\ hkind[p] = "pcs" /\ hpc[p] = "exited" /\ hwrote[p]
        /\ settled /\ prevSnap.valid
        /\ HasSnapshot(hprior[p])
        /\ Len(hout[p]) = 1

\* C18 as stated: isMemoryServiceHealthy returns true only after a fully
\* successful round trip; a refused connection, a timeout and a response
\* with a non-success HTTP status each yield false.
C18_Original ==
    \A p \in HookProcs :
        (hprobe[p].called /\ hprobe[p].value) => hprobe[p].svc = "ok"

\* C18 amended: isMemoryServiceHealthy returns true exactly when the
\* override is not 'false' and the probe received an HTTP response, of
\* whatever status; a refused connection, a timeout, a rejected port and a
\* subprocess that cannot be spawned each yield false.
C18_TrueOnAnyResponse ==
    \A p \in HookProcs : hprobe[p].called =>
        (hprobe[p].value <=>
            (hprobe[p].env # "false" /\ hprobe[p].svc \in {"ok", "status500"}))

\* the service answered with status 500 and the call returned true
C18_Witness ==
    \E p \in HookProcs :
        /\ hprobe[p].called /\ hprobe[p].env = "unset"
        /\ hprobe[p].svc = "status500" /\ hprobe[p].value
        /\ herr[p] = 0

\* C19: with MCP_MEMORY_HEALTHY = 'false' at call time,
\* isMemoryServiceHealthy returns false and spawns no subprocess, hence
\* makes no network attempt.
C19_OverrideSkipsProbe ==
    \A p \in HookProcs :
        (hprobe[p].called /\ hprobe[p].env = "false") =>
            (~hprobe[p].value /\ ~hprobe[p].spawned)

\* the override is set while the service is up
C19_Witness ==
    \E p \in HookProcs :
        /\ hprobe[p].called /\ hprobe[p].env = "false" /\ hprobe[p].svc = "ok"
        /\ ~hprobe[p].value /\ ~hprobe[p].spawned
        /\ herr[p] = 1

\* C20: isMemoryServiceHealthy never raises and returns a boolean, for
\* every value of the override and every state of the probed service.
C20_NeverRaisesBoolean ==
    \A p \in HookProcs : hprobe[p].called =>
        (~hprobe[p].raised /\ hprobe[p].value \in BOOLEAN)

\* no node executable can be spawned: execSync raises, the call returns
\* false
C20_Witness ==
    \E p \in HookProcs :
        /\ hprobe[p].called /\ hprobe[p].env = "true"
        /\ hprobe[p].svc = "spawnFails" /\ hprobe[p].spawned
        /\ ~hprobe[p].raised /\ hprobe[p].value = FALSE

C22_NotANumber(e) ==
    \/ ~e.set
    \/ e.text = <<>>
    \/ \A k \in 1..Len(e.text) :
          e.text[k] \in {"0", "1", "2", "3", "4", "5", "6", "7", "8", "9"} =>
              \E j \in 1..(k - 1) :
                  e.text[j] \notin {" ", "\t", "\n", "\r", "+", "-"}

C23_Before ==
    <<"n", "o", "d", "e", " ", "-", "e", " ", "\"", " ", " ", " ", " ",
      " ", " ", " ", "c", "o", "n", "s", "t", " ", "h", "t", "t", "p", " ",
      "=", " ", "r", "e", "q", "u", "i", "r", "e", "(", "'", "h", "t", "t",
      "p", "'", ")", ";", " ", " ", " ", " ", " ", " ", " ", "c", "o", "n",
      "s", "t", " ", "r", "e", "q", " ", "=", " ", "h", "t", "t", "p", ".",
      "g", "e", "t", "(", " ", " ", " ", " ", " ", " ", " ", " ", " ", "{",
      " ", "h", "o", "s", "t", "n", "a", "m", "e", ":", " ", "'", "1", "2",
      "7", ".", "0", ".", "0", ".", "1", "'", ",", " ", "p", "o", "r", "t",
      ":", " ">>
C23_After ==
    <<",", " ", "p", "a", "t", "h", ":", " ", "'", "/", "'", ",", " ", "t",
      "i", "m", "e", "o", "u", "t", ":", " ", "2", "0", "0", "0", " ", "}",
      ",", " ", " ", " ", " ", " ", " ", " ", " ", " ", "(", "r", "e", "s",
      ")", " ", "=", ">", " ", "{", " ", "p", "r", "o", "c", "e", "s", "s",
      ".", "e", "x", "i", "t", "(", "0", ")", ";", " ", "}", " ", " ", " ",
      " ", " ", " ", " ", ")", ";", " ", " ", " ", " ", " ", " ", " ", "r",
      "e", "q", ".", "o", "n", "(", "'", "e", "r", "r", "o", "r", "'", ",",
      " ", "(", ")", " ", "=", ">", " ", "p", "r", "o", "c", "e", "s", "s",
      ".", "e", "x", "i", "t", "(", "1", ")", ")", ";", " ", " ", " ", " ",
      " ", " ", " ", "r", "e", "q", ".", "o", "n", "(", "'", "t", "i", "m",
      "e", "o", "u", "t", "'", ",", " ", "(", ")", " ", "=", ">", " ", "{",
      " ", "r", "e", "q", ".", "d", "e", "s", "t", "r", "o", "y", "(", ")",
      ";", " ", "p", "r", "o", "c", "e", "s", "s", ".", "e", "x", "i", "t",
      "(", "1", ")", ";", " ", "}", ")", ";", " ", " ", " ", " ", " ", "\"">>
\* the part of the executed command that stands where the port belongs
C23_PortField ==
    SubSeq(memfb.command, Len(C23_Before) + 1, Len(memfb.command) - Len(C23_After))
C23_Framed ==
    /\ Len(memfb.command) >= Len(C23_Before) + Len(C23_After)
    /\ SubSeq(memfb.command, 1, Len(C23_Before)) = C23_Before
    /\ SubSeq(memfb.command, Len(memfb.command) - Len(C23_After) + 1,
              Len(memfb.command)) = C23_After
C23_DigitSet == {"0", "1", "2", "3", "4", "5", "6", "7", "8", "9"}
\* digits, after an optional minus sign
C23_IntegerLiteral(f) ==
    LET d == IF f # <<>> /\ f[1] = "-" THEN Tail(f) ELSE f
    IN  d # <<>> /\ \A k \in 1..Len(d) : d[k] \in C23_DigitSet
\* a digit, an optional fraction, e+ and an exponent, after an optional
\* minus sign
C23_ExponentForm(f) ==
    LET d == IF f # <<>> /\ f[1] = "-" THEN Tail(f) ELSE f
    IN  \E e \in 2..(Len(d) - 2) :
            /\ d[e] = "e" /\ d[e + 1] = "+"
            /\ d[1] \in C23_DigitSet
            /\ e > 2 => (d[2] = "." /\ e > 3)
            /\ \A k \in 3..(e - 1) : d[k] \in C23_DigitSet
            /\ \A k \in (e + 2)..Len(d) : d[k] \in C23_DigitSet
C23_InfinityForm(f) ==
    f \in { <<"I", "n", "f", "i", "n", "i", "t", "y">>,
            <<"-", "I", "n", "f", "i", "n", "i", "t", "y">> }

\* C23 as stated: whatever MCP_HTTP_PORT holds, the command the health probe
\* executes is the fixed command with an integer literal where the port
\* belongs.
C23_Original ==
    memfb.command # <<>> => (C23_Framed /\ C23_IntegerLiteral(C23_PortField))

\* C23 amended: whatever MCP_HTTP_PORT holds, the command the health probe
\* executes is the fixed command with, where the port belongs, the text of
\* the number parseInt read: an integer literal, or the exponent form or
\* Infinity for a value of 22 digits and more.
C23_OnlyANumber ==
    memfb.command # <<>> =>
        /\ C23_Framed
        /\ \/ C23_IntegerLiteral(C23_PortField)
           \/ C23_ExponentForm(C23_PortField)
           \/ C23_InfinityForm(C23_PortField)

\* the module was loaded with the injection payload and the probe ran with
\* port 8000
C23_Witness ==
    /\ memfb.loaded
    /\ memfb.env = [set |-> TRUE, text |-> E_payload]
    /\ memfb.command # <<>>
    /\ C23_PortField = <<"8", "0", "0", "0">>


\* C24: memoryFallbackMessage never raises and returns a non-empty string for
\* every input: null, undefined, numbers, objects, symbols, arbitrary strings.
C24_Original ==
    memfb.message.called =>
        /\ ~memfb.message.raised
        /\ memfb.message.type = "string"
        /\ memfb.message.value # ""

\* the part of C24 the code keeps: no call raises, and what is returned is
\* never empty
C24_NeverRaisesNeverEmpty ==
    memfb.message.called =>
        (~memfb.message.raised /\ memfb.message.value # "")

\* a call with an object that cannot be turned into a string has returned
C24_Reached ==
    /\ memfb.message.called
    /\ memfb.message.arg = H_NoToString


\* C25: the pipeline router returns, for every identifier in the routing
\* table, that identifier's non-empty entry, and for every identifier not in
\* the table, whatever string it is, the generic fallback
\* "check workflow in sprint-status.yaml".
C25_Routed(p) ==
    /\ hkind[p] = "ssm" /\ hpc[p] = "exited"
    /\ Len(hout[p]) = 1 /\ ~hout[p][1].fallback
C25_Original ==
    \A p \in HookProcs :
        C25_Routed(p) =>
            LET body == hout[p][1].body
            IN  IF body.agent \in DOMAIN ROUTING
                THEN body.nextStep = ROUTING[body.agent] /\ body.nextStep # ""
                ELSE body.nextStep = "check workflow in sprint-status.yaml"

\* the part of C25 the code keeps: table entries, and the fallback for every
\* identifier that names nothing an object inherits
C25_ExceptInherited ==
    \A p \in HookProcs :
        (C25_Routed(p) /\ hout[p][1].body.agent \notin PrototypeKeys) =>
            LET body == hout[p][1].body
            IN  IF body.agent \in DOMAIN ROUTING
                THEN body.nextStep = ROUTING[body.agent] /\ body.nextStep # ""
                ELSE body.nextStep = "check workflow in sprint-status.yaml"

\* the router answered for an identifier the table does not hold
C25_Reached ==
    \E p \in HookProcs :
        C25_Routed(p) /\ hout[p][1].body.agent = "lucrecia"


\* the value of the line of field k in the document, <<"?">> when the
\* document has no such line
C26_LineValue(f, k) ==
    IF C13_ValuesOf(f) = <<>> THEN <<"?">> ELSE C13_ValuesOf(f)[k]
C26_HasLine(f, k) == C26_LineValue(f, k) # <<"?">>
C26_Extracted(p) ==
    /\ hpc[p] = "exited" /\ Len(hout[p]) = 1 /\ ~hout[p][1].fallback
\* what hook p shows for field k, <<"?">> when it does not extract it
C26_Shown(p, k) ==
    LET body == hout[p][1].body
    IN  CASE hkind[p] = "pcs" /\ body.sprint # <<>> -> body.sprint[k]
          [] hkind[p] = "ups" /\ body.sprint # <<>> /\ k <= 5 -> body.sprint[k]
          [] hkind[p] = "ssm" /\ k = 3 -> body.phase
          [] hkind[p] = "ssm" /\ k = 4 -> body.next
          [] OTHER -> <<"?">>
C26_Extracts(p, k) ==
    \/ hkind[p] = "pcs"
    \/ hkind[p] = "ups" /\ k <= 5
    \/ hkind[p] = "ssm" /\ k \in {3, 4}

\* C26: for a sprint-status document with a line field: "value" or
\* field: value, every hook that extracts the field obtains exactly value,
\* without quotes and without leading or trailing whitespace.
C26_Original ==
    \A p \in HookProcs : \A k \in 1..6 :
        (C26_Extracted(p) /\ C26_Extracts(p, k) /\ C26_HasLine(sprintFile, k)) =>
            C26_Shown(p, k) = C26_LineValue(sprintFile, k)

\* the part of C26 the code keeps: pre-compact-save obtains exactly the
\* value, and so does every hook for a quoted value
C26_TrimmedBySave ==
    \A p \in HookProcs : \A k \in 1..6 :
        (C26_Extracted(p) /\ C26_Extracts(p, k) /\ C26_HasLine(sprintFile, k)
           /\ (hkind[p] = "pcs" \/ sprintFile # SprintText(DocUnquoted))) =>
            C26_Shown(p, k) = C26_LineValue(sprintFile, k)

\* subagent-stop-memory has read the unquoted document
C26_Reached ==
    \E p \in HookProcs :
        /\ C26_Extracted(p) /\ hkind[p] = "ssm"
        /\ sprintFile = SprintText(DocUnquoted)


C27_NoDocument == {SprintAbsent, SprintText(DocEmpty)}
C27_Sentinels(n) == [k \in 1..n |-> <<"?">>]

\* C27 as stated: with the sprint-status document absent or zero bytes long,
\* every extracted sprint field is "?" and the story ratio is 0/0.
C27_Original ==
    \A p \in HookProcs :
        (C26_Extracted(p) /\ sprintFile \in C27_NoDocument) =>
            LET body == hout[p][1].body
            IN  /\ hkind[p] = "pcs" => body.sprint = C27_Sentinels(6)
                /\ hkind[p] = "ups" =>
                      /\ body.sprint = C27_Sentinels(5)
                      /\ body.stories = [done |-> 0, total |-> 0]

\* C27: with a zero-byte sprint-status document user-prompt-submit-rufus
\* shows "?" for each of its five fields and the story ratio 0/0; with the
\* document absent it shows no field and no ratio ("No active sprint.");
\* in both cases pre-compact-save records an empty sprint block and
\* subagent-stop-memory shows no phase and no next phase.
C27_SentinelsOnlyForEmptyPrompt ==
    \A p \in HookProcs :
        (C26_Extracted(p) /\ sprintFile \in C27_NoDocument) =>
            LET body == hout[p][1].body
            IN  /\ hkind[p] = "pcs" => body.sprint = <<>>
                /\ hkind[p] = "ssm" => (body.phase = <<>> /\ body.next = <<>>)
                /\ hkind[p] = "ups" =>
                      IF sprintFile = SprintAbsent
                      THEN body.sprint = <<>>
                      ELSE /\ body.sprint = C27_Sentinels(5)
                           /\ body.stories = [done |-> 0, total |-> 0]

\* user-prompt-submit-rufus has read a zero-byte document
C27_Witness ==
    \E p \in HookProcs :
        /\ C26_Extracted(p) /\ hkind[p] = "ups"
        /\ sprintFile = SprintText(DocEmpty)
        /\ hout[p][1].body.sprint[1] = <<"?">>


\* C28: once a logEvent call of a process has found or created the telemetry
\* directory, every later logEvent call of that process made while the
\* directory is removed fails silently: it does not raise, and it creates
\* neither the directory nor the log file. (A call that leaves every cache
\* flag as it was is a call of a process whose flag is set, or one whose
\* mkdir failed; both leave nothing behind.)
C28_FailedSilently ==
    /\ telDir' = "missing"
    /\ log' = log
    /\ nfailed' = nfailed + 1
    /\ ~logRaised'
C28_NoRecreation ==
    [][ (telDir = "missing" /\ ncalls' = ncalls + 1 /\ dirEnsured' = dirEnsured
           /\ \E p \in Procs : dirEnsured[p])
          => C28_FailedSilently ]_vars

\* both processes have the flag set, the directory is gone and a call made
\* since then was lost
C28_Witness ==
    /\ \A p \in Procs : dirEnsured[p]
    /\ telDir = "missing"
    /\ ncalls >= 1 /\ nfailed = ncalls
    /\ log = <<>>


C30_AlwaysContinue ==
    \A p \in HookProcs :
        (hkind[p] = "ups" /\ hpc[p] = "exited") =>
            /\ Len(hout[p]) >= 1
            /\ \A k \in 1..Len(hout[p]) : hout[p][k].result = "continue"

\* the hook has answered with the state path occupied by a directory and
\* an unquoted sprint document
C30_Witness ==
    \E p \in HookProcs :
        /\ hkind[p] = "ups" /\ hpc[p] = "exited"
        /\ stateFile = FileDir
        /\ sprintFile = SprintText(DocUnquoted)
        /\ Len(hout[p]) = 1 /\ hout[p][1].result = "continue"
        /\ ~hout[p][1].fallback


\* C31: ensure-shodh-server is idempotent: a run that starts on the two
\* files as the previous run left them, with no external change in between,
\* leaves shodh-config.json and .mcp.json byte-identical.
C31_Original ==
    [][ (leftByRun /\ spc = "idle" /\ spc' # "idle") =>
            (configFile' = configFile /\ mcpFile' = mcpFile) ]_vars

\* the part of C31 the code keeps: the config file is never rewritten, and
\* .mcp.json is left alone when the config file holds an api_key
C31_ExceptGeneratedKey ==
    [][ (leftByRun /\ spc = "idle" /\ spc' # "idle") =>
            /\ configFile' = configFile
            /\ configFile.api_key # "" => mcpFile' = mcpFile ]_vars



\* what the output of probed hook p holds besides the notice: nothing of
\* it is read from the probe
C32_Probed(p) ==
    /\ hkind[p] \in {"pcs", "ssm"} /\ hpc[p] = "exited"
    /\ Len(hout[p]) = 1 /\ hprobe[p].called
C32_RestOfBody(p) ==
    IF hkind[p] = "pcs"
    THEN [NoBody EXCEPT !.sprint = hstate[p].sprint.data,
                        !.agents = AgentIdsSummary(hstate[p].active_agents),
                        !.shown = AgentIdsSummary(hstate[p].active_agents).keys]
    ELSE [NoBody EXCEPT !.agent = hout[p][1].body.agent,
                        !.nextStep = NextStep(hout[p][1].body.agent),
                        !.phase = PhaseTable[ReadSprint(sprintFile)].phase,
                        !.next = PhaseTable[ReadSprint(sprintFile)].next]

\* C32: subagent-stop-memory and pre-compact-save append the fallback notice
\* to their output if and only if the health probe returned false; the rest
\* of the output and the persisted snapshot are the same whether the probe
\* returned true or false.
C32_NoticeIffUnhealthy ==
    \A p \in HookProcs : C32_Probed(p) =>
        LET e == hout[p][1]
        IN  /\ ~e.fallback
            /\ (e.body.warning # NoWarning) <=> ~hprobe[p].value
            /\ ~hprobe[p].value =>
                  e.body.warning =
                      FallbackMessages[IF hkind[p] = "pcs" THEN "pre-compact-save"
                                       ELSE "subagent-stop-memory"]
            /\ [e.body EXCEPT !.warning = NoWarning] = C32_RestOfBody(p)
            /\ (hkind[p] = "pcs" /\ hwrote[p]) => stateFile = FileObject(hstate[p])

\* pre-compact-save has written its snapshot and reported with the service
\* answering a health request with status 500
C32_Witness ==
    \E p \in HookProcs :
        /\ C32_Probed(p) /\ hkind[p] = "pcs" /\ hwrote[p]
        /\ hprobe[p].svc = "status500" /\ hprobe[p].value
        /\ hout[p][1].body.warning = NoWarning
        /\ hout[p][1].body.sprint # <<>>


\* every process of a group of pre-compact-save processes has exited and
\* the host has collected none of them yet
C33_AllFinished ==
    \A p \in HookProcs : hkind[p] = "pcs" /\ hpc[p] = "exited"

\* each process wrote one PreCompact envelope and nothing else
C33_Envelopes ==
    \A p \in HookProcs :
        Len(hout[p]) = 1 /\ hout[p][1].hookEventName = "PreCompact"

\* C33 as stated: when several pre-compact-save processes run at once on
\* one project directory, each emits one valid envelope and the state
\* file they leave is one valid JSON snapshot that has last_compaction
C33_Original ==
    C33_AllFinished =>
        /\ C33_Envelopes
        /\ (\E p \in HookProcs : hwrote[p]) =>
               /\ HasSnapshot(stateFile)
               /\ Truthy(stateFile.doc.last_compaction)

\* C33, the part the code keeps: each process emits one valid envelope,
\* and the file is a valid snapshot unless a shorter snapshot was written
\* over a longer one
C33_ValidUnlessTorn ==
    C33_AllFinished =>
        /\ C33_Envelopes
        /\ (\E p \in HookProcs : hwrote[p]) =>
               \/ HasSnapshot(stateFile) /\ Truthy(stateFile.doc.last_compaction)
               \/ stateFile.top = "torn"

\* C33, the case of the test: no state file before the processes start
C33_TestCase ==
    (C33_AllFinished /\ diskBefore = FileAbsent /\ \E p \in HookProcs : hwrote[p])
        => HasSnapshot(stateFile)

\* the members a snapshot copies from the one before it
C36_Carried == {"active_agents", "pending_decisions", "notes"}

\* C36 as stated: after several concurrent pre-compact-save processes
\* have finished, the snapshot on disk still has the active_agents,
\* pending_decisions and notes that were on disk before any of them
\* started (values the hook keeps when it runs alone, the truthy ones,
\* and a file that is a snapshot)
C36_Original ==
    ( /\ C33_AllFinished
      /\ \A p \in HookProcs : hwrote[p]
      /\ HasSnapshot(diskBefore)
      /\ \A m \in C36_Carried : Truthy(diskBefore.doc[m])
      /\ HasSnapshot(stateFile) ) =>
        \A m \in C36_Carried : stateFile.doc[m] = diskBefore.doc[m]

\* C36, where the processes of the group run one after the other
C36_OneAtATime ==
    ( /\ \E p \in HookProcs : hkind[p] = "pcs" /\ hpc[p] = "exited" /\ hwrote[p]
      /\ \A p \in HookProcs : hpc[p] \in {"idle", "exited"}
      /\ HasSnapshot(diskBefore)
      /\ \A m \in C36_Carried : Truthy(diskBefore.doc[m]) ) =>
        /\ HasSnapshot(stateFile)
        /\ \A m \in C36_Carried : stateFile.doc[m] = diskBefore.doc[m]


\* a run of subagent-stop-memory for an agent of the routing test that
\* has written its envelope
C34_Run(p) ==
    /\ hkind[p] = "ssm" /\ hpc[p] = "exited"
    /\ Len(hout[p]) = 1 /\ ~hout[p][1].fallback
    /\ hout[p][1].body.agent \in DOMAIN RoutingCases

\* C34 as stated: for each agent of the routing test, lucrecia among them,
\* a SubagentStop for mako:<agent> suggests a next step that names the
\* expected successor; for lucrecia it is "report to user"
C34_Original ==
    \A p \in HookProcs :
        C34_Run(p) =>
            Includes(hout[p][1].body.nextStep,
                     RoutingCases[hout[p][1].body.agent])

\* C34 for the twelve agents the routing table of the code has: the
\* suggestion is the table's text and names the expected successor
C34_TwelveAgents ==
    \A p \in HookProcs :
        (C34_Run(p) /\ hout[p][1].body.agent # "lucrecia") =>
            /\ hout[p][1].body.nextStep = ROUTING[hout[p][1].body.agent]
            /\ Includes(hout[p][1].body.nextStep,
                        RoutingCases[hout[p][1].body.agent])

\* C34, the run the code gets wrong: lucrecia is given the suggestion of
\* an unknown agent
C34_Lucrecia ==
    \E p \in HookProcs :
        /\ C34_Run(p) /\ hout[p][1].body.agent = "lucrecia"
        /\ hout[p][1].body.nextStep = DefaultNextStep


\* the status entries of a document: the places where the key status is
\* followed by a colon, and the value of each, the text up to the closing
\* quote or the end of the line
C35_Entries(raw) == {i \in 1..Len(raw) : OccursAt(raw, i, F_status \o <<":">>)}
C35_ValueOf(raw, i) ==
    LET j == i + Len(F_status) + 1
        q == j + SpaceRun(raw, j)
        w == IF q <= Len(raw) /\ raw[q] = "\"" THEN q + 1 ELSE q
    IN  SubSeq(raw, w, w + ValueRun(raw, w) - 1)
C35_Vocabulary == {StatusWords[k] : k \in 1..Len(StatusWords)}

\* a run of user-prompt-submit-rufus that found a sprint document
C35_Reported(p) ==
    /\ hkind[p] = "ups" /\ hpc[p] = "exited"
    /\ Len(hout[p]) = 1 /\ ~hout[p][1].fallback
    /\ sprintFile.kind = "text"

C37_Original ==
    \A p \in HookProcs :
        C35_Reported(p) =>
            hout[p][1].body.stories.done <= hout[p][1].body.stories.total

\* C37, what the code keeps: done exceeds total by one at most
C37_AtMostOneOver ==
    \A p \in HookProcs :
        C35_Reported(p) =>
            hout[p][1].body.stories.done <= hout[p][1].body.stories.total + 1

\* C37, the run that breaks it: every story done under an active sprint
C37_AllDone ==
    \E p \in HookProcs :
        /\ C35_Reported(p)
        /\ sprintFile = SprintText(DocAllDone)
        /\ hout[p][1].body.stories = [done |-> 3, total |-> 2]


\* a logEvent call by process p, with arguments a, that has to create the
\* telemetry directory
C38_CreatingCall(p, a, fsOk) ==
    /\ LogEventCall(p, a, fsOk)
    /\ ~dirEnsured[p]
    /\ telDir = "missing"

\* C38: when creating the telemetry directory fails during a logEvent
\* call the cache flag of the process stays unset (and nothing is
\* written), so a later call of the process attempts the creation again;
\* the call whose creation succeeds sets the flag and appends its record
\* (a record JSON.stringify can write)
C38_RetriesUntilCreated ==
    [][ \A p \in Procs, a \in DirectArgs, fsOk \in BOOLEAN :
          C38_CreatingCall(p, a, fsOk) =>
              IF fsOk
              THEN /\ telDir' = "present"
                   /\ dirEnsured'[p]
                   /\ LET line == Stringify(BuildEntry(a.event, a.hook, a.dur, a.meta),
                                            ncalls + 1, 0)
                      IN  \/ line.thrown /\ log' = log
                          \/ ~line.thrown /\ log' = Append(log, line)
              ELSE /\ telDir' = "missing"
                   /\ ~dirEnsured'[p]
                   /\ log' = log
                   /\ nfailed' = nfailed + 1 ]_vars

\* C38, where it happens: the first call was lost with the directory
\* missing, the second created the directory and its record is the log
C38_Witness ==
    /\ ncalls = 2 /\ nfailed = 1
    /\ telDir = "present"
    /\ \E p \in Procs : dirEnsured[p] /\ \A q \in Procs \ {p} : ~dirEnsured[q]
    /\ Len(log) = 1 /\ log[1].call = 2


====
